---- MODULE Spec2Model ----
(***************************************************************************)
(* Lead intake over voice and SMS (nps_ivr): the session store, the        *)
(* streaming voice bridge (app/voice_openai.py), the SMS webhook            *)
(* (app/main.py), the turn processor with its eligibility rules            *)
(* (app/llm.py, app/validation_rules.py), the lead API client              *)
(* (app/salesforce.py) and the operator retry tool                         *)
(* (manage_failed_leads.py).                                               *)
(*                                                                         *)
(* Text values are sequences of one-character strings, so that the string  *)
(* operations of the code are computed on the characters.  An absent       *)
(* value (None, a missing key) is <<>>.                                     *)
(***************************************************************************)
EXTENDS Integers, Sequences, FiniteSets, TLC

VARIABLES
    sessions,    \* table conversation_sessions; the row id is the index
    failed,      \* table failed_leads
    succeeded,   \* table succeeded_leads
    rejected,    \* table rejected_leads
    createLog,   \* history: the invocations of create_lead, in order
    handlers,    \* the TwilioMediaStreamHandler instances
    lastGot,     \* history: what the last get-or-create returned
    creds,       \* settings.npa_api_username/password are configured
    turns,       \* table conversation_turns
    summary,     \* what the last retry-all printed as its summary
    given,       \* the arguments of a call of process_turn
    outcome,     \* what that call returned
    ops          \* the operator commands in progress, manage_failed_leads.py

vars == <<sessions, failed, succeeded, rejected, createLog, handlers, lastGot, creds, turns,
         summary, given, outcome, ops>>

(***************************************************************************)
(* Bounds                                                                  *)
(***************************************************************************)
MaxSessions == 3     \* rows in conversation_sessions
MaxCreate == 2       \* invocations of create_lead
NumHandlers == 2     \* handler instances
MaxTurns == 2        \* calls of _log_conversation_turn per handler
MaxLeads == 2        \* rows of failed_leads when the operator starts
MaxAudio == 2        \* audio deltas the engine emits in one call
NumOperators == 2    \* operator commands running at the same time

Handlers == 1..NumHandlers
Operators == 1..NumOperators

(***************************************************************************)
(* Vocabulary of the inputs                                                *)
(***************************************************************************)
Digit == {"0", "1", "2", "3", "4", "5", "6", "7", "8", "9"}

NameTim == <<"T", "i", "m", " ", "F", "o", "x">>
Zip30093 == <<"3", "0", "0", "9", "3">>
Zip30093Plus4 == <<"3", "0", "0", "9", "3", "-", "1", "2", "3", "4">>
Zip99501 == <<"9", "9", "5", "0", "1">>
Zip3009 == <<"3", "0", "0", "9">>
Phone720 == <<"7", "2", "0", "5", "5", "5", "1", "2", "3", "4">>
Phone1720 == <<"1">> \o Phone720
EmailBad == <<"t", ".", "y">>
Year2020 == <<"2", "0", "2", "0">>
Year2015 == <<"2", "0", "1", "5">>
Year3009 == <<"3", "0", "0", "9">>
Yamaha == <<"Y", "a", "m", "a", "h", "a">>
Zero == <<"Z", "e", "r", "o">>
Grizzly == <<"G", "r", "i", "z", "z", "l", "y">>
Yes == <<"y", "e", "s">>

PENDING == "pending"
CallSids == {"CA1"}
SmsKeys == {<<"+", "1", "7", "2", "0", "5", "5", "5", "1", "2", "3", "4">>}

\* models.py REQUIRED_FIELDS
REQUIRED_FIELDS ==
    <<"full_name", "zip_code", "phone", "email",
      "vehicle_make", "vehicle_model", "vehicle_year">>

(***************************************************************************)
(* Dictionaries                                                            *)
(***************************************************************************)
EmptyMap == [k \in {} |-> <<>>]

\* dict.get(k): the value, or a falsy value when the key is absent
Get(d, k) == IF k \in DOMAIN d THEN d[k] ELSE <<>>

\* d[k] = v
Put(d, k, v) == [x \in DOMAIN d \cup {k} |-> IF x = k THEN v ELSE d[x]]

\* {**d, **e}
Merge(d, e) == [x \in DOMAIN d \cup DOMAIN e |-> IF x \in DOMAIN e THEN e[x] ELSE d[x]]

\* d.pop(k, None)
Pop(d, k) == [x \in DOMAIN d \ {k} |-> d[x]]

Truthy(v) == v # <<>>

\* not str(v).strip(): empty, or nothing but spaces
IsBlank(v) == \A i \in 1..Len(v) : v[i] = " "

\* "".join(c for c in s if c.isdigit())
RECURSIVE DigitsOf(_)
DigitsOf(s) ==
    IF s = <<>> THEN <<>>
    ELSE IF Head(s) \in Digit THEN <<Head(s)>> \o DigitsOf(Tail(s))
    ELSE DigitsOf(Tail(s))

\* s.startswith(p)
StartsWith(s, p) == Len(s) >= Len(p) /\ SubSeq(s, 1, Len(p)) = p

(***************************************************************************)
(* Text                                                                    *)
(***************************************************************************)
LowerCase == <<"a", "b", "c", "d", "e", "f", "g", "h", "i", "j", "k", "l", "m",
               "n", "o", "p", "q", "r", "s", "t", "u", "v", "w", "x", "y", "z">>
UpperCase == <<"A", "B", "C", "D", "E", "F", "G", "H", "I", "J", "K", "L", "M",
               "N", "O", "P", "Q", "R", "S", "T", "U", "V", "W", "X", "Y", "Z">>
Letter == {LowerCase[i] : i \in 1..26} \cup {UpperCase[i] : i \in 1..26}

LowerChar(c) ==
    IF \E i \in 1..26 : UpperCase[i] = c
    THEN LowerCase[CHOOSE i \in 1..26 : UpperCase[i] = c]
    ELSE c

\* s.lower()
Lower(s) == [i \in 1..Len(s) |-> LowerChar(s[i])]

\* s[n:]
Drop(s, n) == SubSeq(s, n + 1, Len(s))

\* the number of spaces s begins with
RECURSIVE LeadingSpaces(_)
LeadingSpaces(s) ==
    IF s # <<>> /\ Head(s) = " " THEN 1 + LeadingSpaces(Tail(s)) ELSE 0

RECURSIVE Reverse(_)
Reverse(s) == IF s = <<>> THEN <<>> ELSE Append(Reverse(Tail(s)), Head(s))

\* s.strip()
Strip(s) ==
    LET l == Drop(s, LeadingSpaces(s))
    IN Reverse(Drop(Reverse(l), LeadingSpaces(Reverse(l))))

\* k in s
Contains(s, k) ==
    \E i \in 1..(Len(s) - Len(k) + 1) : SubSeq(s, i, i + Len(k) - 1) = k

\* s.endswith(k)
EndsWith(s, k) == Len(s) >= Len(k) /\ SubSeq(s, Len(s) - Len(k) + 1, Len(s)) = k

\* s.count(c)
Count(s, c) == Cardinality({i \in 1..Len(s) : s[i] = c})

\* s.replace(" ", "")
RECURSIVE RemoveSpaces(_)
RemoveSpaces(s) ==
    IF s = <<>> THEN <<>>
    ELSE IF Head(s) = " " THEN RemoveSpaces(Tail(s))
    ELSE <<Head(s)>> \o RemoveSpaces(Tail(s))

\* re.sub(r'\s+(w1|w2|...)\s+', rep, s): every leftmost run of spaces, one
\* of the words, and the run of spaces after it becomes rep
RECURSIVE SubSpaced(_, _, _)
SubSpaced(s, words, rep) ==
    IF s = <<>> THEN <<>>
    ELSE LET n == LeadingSpaces(s)
             rest == Drop(s, n)
             hit == {w \in words : /\ StartsWith(rest, w)
                                   /\ LeadingSpaces(Drop(rest, Len(w))) > 0}
         IN IF n > 0 /\ hit # {}
            THEN LET w == CHOOSE x \in hit : \A y \in hit : Len(y) <= Len(x)
                     after == Drop(rest, Len(w))
                 IN rep \o SubSpaced(Drop(after, LeadingSpaces(after)), words, rep)
            ELSE <<Head(s)>> \o SubSpaced(Tail(s), words, rep)

\* int(s) for a string of decimal digits
DigitValue(c) ==
    CASE c = "0" -> 0 [] c = "1" -> 1 [] c = "2" -> 2 [] c = "3" -> 3 [] c = "4" -> 4
      [] c = "5" -> 5 [] c = "6" -> 6 [] c = "7" -> 7 [] c = "8" -> 8 [] c = "9" -> 9

RECURSIVE ToInt(_)
ToInt(s) == IF s = <<>> THEN 0 ELSE 10 * ToInt(SubSeq(s, 1, Len(s) - 1)) + DigitValue(s[Len(s)])

\* s.isdigit()
IsDigits(s) == s # <<>> /\ \A i \in 1..Len(s) : s[i] \in Digit

\* the zip prefixes of the regions not served
AlaskaPrefixes == {<<"9", "9", "5">>, <<"9", "9", "6">>, <<"9", "9", "7">>, <<"9", "9", "8">>, <<"9", "9", "9">>}
HawaiiPrefixes == {<<"9", "6", "7">>, <<"9", "6", "8">>}

\* a check that finds every field present
missing_fields_none(state) == <<>>

\* models.missing_fields
missing_fields(state) ==
    SelectSeq(REQUIRED_FIELDS, LAMBDA f : IsBlank(Get(state, f)))

(***************************************************************************)
(* Field validation, app/validation.py                                     *)
(***************************************************************************)
\* the year datetime.now() gives
CurrentYear == 2026

\* normalize_phone
normalize_phone(text) ==
    LET all == DigitsOf(text)
        digits == IF Len(all) = 11 /\ all[1] = "1" THEN Tail(all) ELSE all
    IN IF Len(digits) = 10
       THEN <<"(">> \o SubSeq(digits, 1, 3) \o <<")", " ">> \o SubSeq(digits, 4, 6)
            \o <<"-">> \o SubSeq(digits, 7, 10)
       ELSE text

\* validate_phone: is_valid
validate_phone(phone) ==
    LET all == DigitsOf(Strip(phone))
        digits == IF Len(all) = 11 THEN Tail(all) ELSE all
    IN /\ ~IsBlank(phone)
       /\ Len(all) = 11 => all[1] = "1"
       /\ Len(digits) = 10
       /\ digits[1] \notin {"0", "1"}
       /\ SubSeq(digits, 1, 3) # <<"5", "5", "5">> => digits[4] \notin {"0", "1"}
       /\ Cardinality({digits[i] : i \in 1..Len(digits)}) # 1

\* validate_vehicle_year: is_valid
validate_vehicle_year(year) ==
    LET year_str == Strip(year) IN
    /\ ~IsBlank(year)
    /\ IsDigits(year_str)
    /\ ToInt(year_str) >= 1000 /\ ToInt(year_str) <= 9999
    /\ ToInt(year_str) >= 1950
    /\ ToInt(year_str) <= CurrentYear + 1

\* the domains normalize_transcribed_email completes with ".com"
CommonDomains ==
    {<<"g", "m", "a", "i", "l">>, <<"y", "a", "h", "o", "o">>,
     <<"h", "o", "t", "m", "a", "i", "l">>, <<"o", "u", "t", "l", "o", "o", "k">>,
     <<"i", "c", "l", "o", "u", "d">>, <<"a", "o", "l">>,
     <<"p", "r", "o", "t", "o", "n", "m", "a", "i", "l">>, <<"m", "s", "n">>}

DotCom == <<".", "c", "o", "m">>

\* normalize_transcribed_email
normalize_transcribed_email(text) ==
    LET t0 == Strip(Lower(text))
        t1 == SubSpaced(t0, {<<"a", "t">>}, <<"@">>)
        t2 == SubSpaced(t1, {<<"d", "o", "t">>}, <<".">>)
        t3 == SubSpaced(t2, {<<"d", "a", "s", "h">>, <<"h", "y", "p", "h", "e", "n">>}, <<"-">>)
        t4 == SubSpaced(t3, {<<"u", "n", "d", "e", "r", "s", "c", "o", "r", "e">>}, <<"_">>)
        t5 == RemoveSpaces(t4)
    IN IF \E d \in CommonDomains : EndsWith(t5, <<"@">> \o d) THEN t5 \o DotCom ELSE t5

\* the characters EMAIL_PATTERN admits before and after the @
EmailLocalChar == Letter \cup Digit \cup {".", "_", "%", "+", "-"}
EmailDomainChar == Letter \cup Digit \cup {".", "-"}

\* EMAIL_PATTERN.match(email)
EmailPatternMatch(email) ==
    \E a \in 1..Len(email), d \in 1..Len(email) :
        /\ email[a] = "@" /\ email[d] = "." /\ a > 1 /\ d > a + 1
        /\ \A i \in 1..(a - 1) : email[i] \in EmailLocalChar
        /\ \A i \in (a + 1)..(d - 1) : email[i] \in EmailDomainChar
        /\ Len(email) - d >= 2
        /\ \A i \in (d + 1)..Len(email) : email[i] \in Letter

\* validate_email: is_valid
validate_email(raw) ==
    LET email == Strip(raw)
        at == IF Count(email, "@") = 1 THEN CHOOSE i \in 1..Len(email) : email[i] = "@" ELSE 0
    IN /\ ~IsBlank(raw)
       /\ Len(email) <= 254
       /\ Len(email) >= 3
       /\ Count(email, "@") = 1
       /\ at > 1
       /\ at < Len(email)
       /\ Contains(Drop(email, at), <<".">>)
       /\ EmailPatternMatch(email)

\* the value a field is normalized to, with the verdict of its validator
CheckedValue(value, validator) ==
    [value |-> value,
     is_valid |-> CASE validator = "email" -> validate_email(value)
                    [] validator = "phone" -> validate_phone(value)
                    [] validator = "vehicle_year" -> validate_vehicle_year(value)
                    [] OTHER -> TRUE]

\* validate_and_normalize_field: the normalized value and is_valid
validate_and_normalize_field(field_name, raw) ==
    CASE field_name = "email" ->
            CheckedValue(normalize_transcribed_email(Strip(raw)), "email")
      [] field_name = "phone" ->
            CheckedValue(normalize_phone(Strip(raw)), "phone")
      [] field_name = "vehicle_year" ->
            CheckedValue(Strip(raw), "vehicle_year")
      [] OTHER -> CheckedValue(Strip(raw), "")

(***************************************************************************)
(* Eligibility rules, app/validation_rules.py                              *)
(***************************************************************************)
\* BRAND_MODEL_PATTERNS: its keys, in the order of the dictionary
BrandNames ==
    <<<<"h", "o", "n", "d", "a">>,
      <<"y", "a", "m", "a", "h", "a">>,
      <<"k", "a", "w", "a", "s", "a", "k", "i">>,
      <<"s", "u", "z", "u", "k", "i">>,
      <<"h", "a", "r", "l", "e", "y">>,
      <<"h", "a", "r", "l", "e", "y", "-", "d", "a", "v", "i", "d", "s", "o", "n">>,
      <<"d", "u", "c", "a", "t", "i">>,
      <<"k", "t", "m">>,
      <<"b", "m", "w">>,
      <<"t", "r", "i", "u", "m", "p", "h">>,
      <<"p", "o", "l", "a", "r", "i", "s">>,
      <<"c", "a", "n", "-", "a", "m">>,
      <<"a", "r", "c", "t", "i", "c", " ", "c", "a", "t">>>>

\* BRAND_MODEL_PATTERNS[make]
BrandPatterns(make) ==

    CASE make = <<"h", "o", "n", "d", "a">> ->
             {<<"c", "b", "r">>, <<"c", "r", "f">>, <<"c", "b">>,
              <<"s", "h", "a", "d", "o", "w">>, <<"r", "e", "b", "e", "l">>,
              <<"g", "o", "l", "d", "w", "i", "n", "g">>,
              <<"a", "f", "r", "i", "c", "a", " ", "t", "w", "i", "n">>,
              <<"r", "a", "n", "c", "h", "e", "r">>, <<"f", "o", "r", "e", "m", "a", "n">>,
              <<"r", "u", "b", "i", "c", "o", "n">>, <<"p", "i", "o", "n", "e", "e", "r">>,
              <<"t", "a", "l", "o", "n">>, <<"r", "c", "5", "1">>, <<"v", "t", "r">>}
      [] make = <<"y", "a", "m", "a", "h", "a">> ->
             {<<"y", "z", "f">>, <<"r", "1">>, <<"r", "6">>, <<"r", "7">>, <<"m", "t">>,
              <<"f", "z">>, <<"v", "-", "s", "t", "a", "r">>, <<"b", "o", "l", "t">>,
              <<"t", "e", "n", "e", "r", "e">>, <<"w", "r">>, <<"y", "z">>,
              <<"g", "r", "i", "z", "z", "l", "y">>, <<"r", "a", "p", "t", "o", "r">>,
              <<"k", "o", "d", "i", "a", "k">>,
              <<"w", "o", "l", "v", "e", "r", "i", "n", "e">>,
              <<"v", "i", "k", "i", "n", "g">>}
      [] make = <<"k", "a", "w", "a", "s", "a", "k", "i">> ->
             {<<"n", "i", "n", "j", "a">>, <<"z">>, <<"z", "x">>,
              <<"v", "u", "l", "c", "a", "n">>, <<"v", "e", "r", "s", "y", "s">>,
              <<"k", "l", "r">>, <<"k", "x">>,
              <<"b", "r", "u", "t", "e", " ", "f", "o", "r", "c", "e">>,
              <<"m", "u", "l", "e">>, <<"t", "e", "r", "y", "x">>, <<"r", "i", "d", "g", "e">>}
      [] make = <<"s", "u", "z", "u", "k", "i">> ->
             {<<"g", "s", "x", "r">>, <<"g", "s", "x">>,
              <<"h", "a", "y", "a", "b", "u", "s", "a">>,
              <<"v", "-", "s", "t", "r", "o", "m">>,
              <<"b", "o", "u", "l", "e", "v", "a", "r", "d">>, <<"s", "v">>, <<"r", "m">>,
              <<"d", "r">>, <<"k", "i", "n", "g", "q", "u", "a", "d">>,
              <<"o", "z", "a", "r", "k">>}
      [] make = <<"h", "a", "r", "l", "e", "y">> ->
             {<<"s", "t", "r", "e", "e", "t">>,
              <<"s", "p", "o", "r", "t", "s", "t", "e", "r">>, <<"i", "r", "o", "n">>,
              <<"f", "o", "r", "t", "y", "-", "e", "i", "g", "h", "t">>,
              <<"s", "o", "f", "t", "a", "i", "l">>, <<"f", "a", "t", " ", "b", "o", "y">>,
              <<"h", "e", "r", "i", "t", "a", "g", "e">>, <<"d", "e", "l", "u", "x", "e">>,
              <<"r", "o", "a", "d">>, <<"g", "l", "i", "d", "e">>, <<"k", "i", "n", "g">>,
              <<"e", "l", "e", "c", "t", "r", "a">>, <<"u", "l", "t", "r", "a">>,
              <<"l", "o", "w", " ", "r", "i", "d", "e", "r">>, <<"d", "y", "n", "a">>,
              <<"b", "r", "e", "a", "k", "o", "u", "t">>}
      [] make = <<"h", "a", "r", "l", "e", "y", "-", "d", "a", "v", "i", "d", "s", "o", "n">> ->
             {<<"s", "t", "r", "e", "e", "t">>,
              <<"s", "p", "o", "r", "t", "s", "t", "e", "r">>, <<"i", "r", "o", "n">>,
              <<"f", "o", "r", "t", "y", "-", "e", "i", "g", "h", "t">>,
              <<"s", "o", "f", "t", "a", "i", "l">>, <<"f", "a", "t", " ", "b", "o", "y">>,
              <<"h", "e", "r", "i", "t", "a", "g", "e">>, <<"d", "e", "l", "u", "x", "e">>,
              <<"r", "o", "a", "d">>, <<"g", "l", "i", "d", "e">>, <<"k", "i", "n", "g">>,
              <<"e", "l", "e", "c", "t", "r", "a">>, <<"u", "l", "t", "r", "a">>,
              <<"l", "o", "w", " ", "r", "i", "d", "e", "r">>, <<"d", "y", "n", "a">>,
              <<"b", "r", "e", "a", "k", "o", "u", "t">>}
      [] make = <<"d", "u", "c", "a", "t", "i">> ->
             {<<"p", "a", "n", "i", "g", "a", "l", "e">>,
              <<"m", "o", "n", "s", "t", "e", "r">>,
              <<"m", "u", "l", "t", "i", "s", "t", "r", "a", "d", "a">>,
              <<"s", "t", "r", "e", "e", "t", "f", "i", "g", "h", "t", "e", "r">>,
              <<"d", "i", "a", "v", "e", "l">>,
              <<"s", "c", "r", "a", "m", "b", "l", "e", "r">>,
              <<"s", "u", "p", "e", "r", "s", "p", "o", "r", "t">>,
              <<"h", "y", "p", "e", "r", "m", "o", "t", "a", "r", "d">>}
      [] make = <<"k", "t", "m">> ->
             {<<"d", "u", "k", "e">>, <<"r", "c">>,
              <<"a", "d", "v", "e", "n", "t", "u", "r", "e">>, <<"s", "m", "c">>, <<"s", "x">>,
              <<"e", "x", "c">>, <<"x", "c">>}
      [] make = <<"b", "m", "w">> ->
             {<<"g", "s">>, <<"r", "1", "2", "5", "0">>, <<"r", "1", "2", "0", "0">>,
              <<"s", "1", "0", "0", "0">>, <<"f", "8", "5", "0">>, <<"f", "7", "5", "0">>,
              <<"k", "1", "6", "0", "0">>}
      [] make = <<"t", "r", "i", "u", "m", "p", "h">> ->
             {<<"b", "o", "n", "n", "e", "v", "i", "l", "l", "e">>,
              <<"s", "t", "r", "e", "e", "t", " ", "t", "r", "i", "p", "l", "e">>,
              <<"s", "p", "e", "e", "d", " ", "t", "r", "i", "p", "l", "e">>,
              <<"t", "i", "g", "e", "r">>, <<"r", "o", "c", "k", "e", "t">>,
              <<"t", "h", "r", "u", "x", "t", "o", "n">>,
              <<"s", "c", "r", "a", "m", "b", "l", "e", "r">>}
      [] make = <<"p", "o", "l", "a", "r", "i", "s">> ->
             {<<"r", "a", "n", "g", "e", "r">>, <<"r", "z", "r">>,
              <<"s", "p", "o", "r", "t", "s", "m", "a", "n">>,
              <<"s", "c", "r", "a", "m", "b", "l", "e", "r">>,
              <<"s", "l", "i", "n", "g", "s", "h", "o", "t">>,
              <<"g", "e", "n", "e", "r", "a", "l">>}
      [] make = <<"c", "a", "n", "-", "a", "m">> ->
             {<<"m", "a", "v", "e", "r", "i", "c", "k">>,
              <<"d", "e", "f", "e", "n", "d", "e", "r">>,
              <<"o", "u", "t", "l", "a", "n", "d", "e", "r">>,
              <<"r", "e", "n", "e", "g", "a", "d", "e">>,
              <<"c", "o", "m", "m", "a", "n", "d", "e", "r">>,
              <<"s", "p", "y", "d", "e", "r">>}
      [] make = <<"a", "r", "c", "t", "i", "c", " ", "c", "a", "t">> ->
             {<<"w", "i", "l", "d", "c", "a", "t">>, <<"p", "r", "o", "w", "l", "e", "r">>,
              <<"a", "l", "t", "e", "r", "r", "a">>, <<"z", "r">>}

MsgAlaska ==
    <<"W", "e", " ", "d", "o", "n", "'", "t", " ", "c", "u", "r", "r", "e", "n", "t", "l", "y", " ", "s", "e", "r", "v", "i", "c", "e", " ", "A", "l", "a", "s", "k", "a", ".", " ", "W", "e", " ", "o", "n", "l", "y", " ", "s", "e", "r", "v", "i", "c", "e", " ", "t", "h", "e", " ", "c", "o", "n", "t", "i", "n", "e", "n", "t", "a", "l", " ", "U", "n", "i", "t", "e", "d", " ", "S", "t", "a", "t", "e", "s", ".">>
MsgHawaii ==
    <<"W", "e", " ", "d", "o", "n", "'", "t", " ", "c", "u", "r", "r", "e", "n", "t", "l", "y", " ", "s", "e", "r", "v", "i", "c", "e", " ", "H", "a", "w", "a", "i", "i", ".", " ", "W", "e", " ", "o", "n", "l", "y", " ", "s", "e", "r", "v", "i", "c", "e", " ", "t", "h", "e", " ", "c", "o", "n", "t", "i", "n", "e", "n", "t", "a", "l", " ", "U", "n", "i", "t", "e", "d", " ", "S", "t", "a", "t", "e", "s", ".">>
MsgElectric == <<"W", "e", " ", "d", "o", "n", "'", "t", " ", "c", "u", "r", "r", "e", "n", "t", "l", "y", " ", "p", "u", "r", "c", "h", "a", "s", "e", " ", "e", "l", "e", "c", "t", "r", "i", "c", " ", "m", "o", "t", "o", "r", "c", "y", "c", "l", "e", "s", ".">>
MsgSlingshot == <<"W", "e", " ", "a", "r", "e", " ", "n", "o", "t", " ", "i", "n", "t", "e", "r", "e", "s", "t", "e", "d", " ", "i", "n", " ", "t", "h", "a", "t", " ", "u", "n", "i", "t", ".">>
MsgPurchase == <<"W", "e", " ", "d", "o", "n", "'", "t", " ", "c", "u", "r", "r", "e", "n", "t", "l", "y", " ", "p", "u", "r", "c", "h", "a", "s", "e", " ">>
MsgFrom == <<" ", "f", "r", "o", "m", " ">>
MsgAndOlder == <<" ", "a", "n", "d", " ", "o", "l", "d", "e", "r", ".">>
MsgThe == <<"T", "h", "e", " ">>
MsgModelDoesnt == <<" ", "m", "o", "d", "e", "l", " ", "d", "o", "e", "s", "n", "'", "t", " ", "m", "a", "t", "c", "h", " ", "t", "h", "e", " ">>
MsgBrandVerify == <<" ", "b", "r", "a", "n", "d", ".", " ", "P", "l", "e", "a", "s", "e", " ", "v", "e", "r", "i", "f", "y", " ", "y", "o", "u", "r", " ", "v", "e", "h", "i", "c", "l", "e", " ", "i", "n", "f", "o", "r", "m", "a", "t", "i", "o", "n", ".">>

\* a result of a rule: eligible, or the rejection message
Pass == [ok |-> TRUE, msg |-> <<>>]
Fail(msg) == [ok |-> FALSE, msg |-> msg]

\* any(k in s for k in keys)
AnyIn(keys, s) == \E k \in keys : Contains(s, k)

\* validate_zip_code
validate_zip_code(zip_code) ==
    IF ~Truthy(zip_code) \/ Len(zip_code) # 5 \/ ~IsDigits(zip_code)
    THEN Fail(<<"Z", "I", "P", " ", "c", "o", "d", "e", " ", "m", "u", "s", "t", " ", "b", "e", " ", "e", "x", "a", "c", "t", "l", "y", " ", "5", " ", "d", "i", "g", "i", "t", "s">>)
    ELSE IF \E p \in AlaskaPrefixes : StartsWith(zip_code, p)
    THEN Fail(MsgAlaska)
    ELSE IF \E p \in HawaiiPrefixes : StartsWith(zip_code, p)
    THEN Fail(MsgHawaii)
    ELSE Pass

\* validate_make_model_match
validate_make_model_match(make, model) ==
    LET stripped == Strip(Lower(make))
        model_lower == Strip(Lower(model))
        make_lower == IF Contains(stripped, <<"h", "a", "r", "l", "e", "y">>) THEN <<"h", "a", "r", "l", "e", "y", "-", "d", "a", "v", "i", "d", "s", "o", "n">>
                      ELSE IF Contains(stripped, <<"c", "a", "n", " ", "a", "m">>) \/ Contains(stripped, <<"c", "a", "n", "a", "m">>)
                      THEN <<"c", "a", "n", "-", "a", "m">>
                      ELSE stripped
        known == \E i \in 1..Len(BrandNames) : BrandNames[i] = make_lower
    IN IF ~Truthy(make) \/ ~Truthy(model) THEN Pass
       ELSE IF ~known THEN Pass
       ELSE IF AnyIn(BrandPatterns(make_lower), model_lower) THEN Pass
       ELSE IF \E i \in 1..Len(BrandNames) :
                  BrandNames[i] # make_lower /\ AnyIn(BrandPatterns(BrandNames[i]), model_lower)
       THEN Fail(MsgThe \o model \o MsgModelDoesnt \o make \o MsgBrandVerify)
       ELSE Pass

\* the keyword lists of categorize_vehicle_type
SideBySideModels ==
    {<<"r", "z", "r">>, <<"m", "a", "v", "e", "r", "i", "c", "k">>,
     <<"r", "h", "i", "n", "o">>, <<"t", "e", "r", "y", "x">>,
     <<"r", "a", "n", "g", "e", "r">>, <<"m", "u", "l", "e">>, <<"g", "a", "t", "o", "r">>}
AtvModelsOfCategory ==
    {<<"g", "r", "i", "z", "z", "l", "y">>, <<"r", "a", "n", "c", "h", "e", "r">>,
     <<"s", "p", "o", "r", "t", "s", "m", "a", "n">>,
     <<"o", "u", "t", "l", "a", "n", "d", "e", "r">>, <<"k", "o", "d", "i", "a", "k">>,
     <<"f", "o", "r", "e", "m", "a", "n">>}
DirtBikeModelsOfCategory ==
    {<<"c", "r", "f">>, <<"y", "z">>, <<"k", "x">>, <<"r", "m">>, <<"s", "x">>,
     <<"e", "x", "c">>}
ScooterModelsOfCategory ==
    {<<"m", "e", "t", "r", "o", "p", "o", "l", "i", "t", "a", "n">>, <<"z", "u", "m", "a">>,
     <<"r", "u", "c", "k", "u", "s">>}
CruiserMakesOfCategory ==
    {<<"h", "a", "r", "l", "e", "y">>, <<"i", "n", "d", "i", "a", "n">>,
     <<"v", "i", "c", "t", "o", "r", "y">>}
SportBikeModelsOfCategory ==
    {<<"c", "b", "r">>, <<"r", "1">>, <<"r", "6">>, <<"n", "i", "n", "j", "a">>,
     <<"g", "s", "x", "r">>}

\* categorize_vehicle_type
categorize_vehicle_type(make, model) ==
    LET make_lower == Lower(make)
        model_lower == Lower(model)
    IN IF AnyIn(SideBySideModels, model_lower) THEN "side_by_side"
       ELSE IF AnyIn(AtvModelsOfCategory, model_lower) THEN "atv"
       ELSE IF AnyIn(DirtBikeModelsOfCategory, model_lower) THEN "dirt_bike"
       ELSE IF AnyIn(ScooterModelsOfCategory, model_lower) THEN "scooter"
       ELSE IF Contains(make_lower, <<"v", "e", "s", "p", "a">>) THEN "scooter"
       ELSE IF Contains(model_lower, <<"s", "l", "i", "n", "g", "s", "h", "o", "t">>) THEN "slingshot"
       ELSE IF AnyIn(CruiserMakesOfCategory, make_lower) THEN "cruiser"
       ELSE IF AnyIn(SportBikeModelsOfCategory, model_lower) THEN "sport_bike"
       ELSE "unknown"

\* str(year) in the rejection messages
RECURSIVE IntText(_)
IntText(n) ==
    IF n < 10 THEN <<CHOOSE c \in Digit : DigitValue(c) = n>>
    ELSE Append(IntText(n \div 10), CHOOSE c \in Digit : DigitValue(c) = n % 10)

AgeMsg(what, year) == MsgPurchase \o what \o MsgFrom \o IntText(year) \o MsgAndOlder

\* a list of electric brands without LiveWire
electric_brands_zero == {<<"z", "e", "r", "o">>}

\* the keyword lists of validate_vehicle_eligibility
electric_brands ==
    {<<"z", "e", "r", "o">>, <<"l", "i", "v", "e", "w", "i", "r", "e">>,
     <<"l", "i", "v", "e", " ", "w", "i", "r", "e">>}
DomesticCruiserMakes ==
    {<<"h", "a", "r", "l", "e", "y">>,
     <<"h", "a", "r", "l", "e", "y", "-", "d", "a", "v", "i", "d", "s", "o", "n">>,
     <<"i", "n", "d", "i", "a", "n">>, <<"v", "i", "c", "t", "o", "r", "y">>}
MetricMakes ==
    {<<"h", "o", "n", "d", "a">>, <<"y", "a", "m", "a", "h", "a">>,
     <<"k", "a", "w", "a", "s", "a", "k", "i">>, <<"s", "u", "z", "u", "k", "i">>,
     <<"d", "u", "c", "a", "t", "i">>, <<"b", "m", "w">>,
     <<"t", "r", "i", "u", "m", "p", "h">>, <<"k", "t", "m">>}
SportModels ==
    {<<"c", "b", "r">>, <<"r", "1">>, <<"r", "6">>, <<"n", "i", "n", "j", "a">>,
     <<"g", "s", "x", "r">>, <<"g", "s", "x", "-", "r">>}
AtvModels ==
    {<<"r", "a", "n", "c", "h", "e", "r">>, <<"g", "r", "i", "z", "z", "l", "y">>,
     <<"s", "p", "o", "r", "t", "s", "m", "a", "n">>,
     <<"o", "u", "t", "l", "a", "n", "d", "e", "r">>, <<"k", "o", "d", "i", "a", "k">>,
     <<"f", "o", "r", "e", "m", "a", "n">>, <<"r", "u", "b", "i", "c", "o", "n">>}
DirtBikeModels ==
    {<<"c", "r", "f">>, <<"y", "z">>, <<"k", "x">>, <<"r", "m">>, <<"s", "x">>,
     <<"e", "x", "c">>, <<"x", "c">>, <<"m", "x">>}
ScooterModels ==
    {<<"m", "e", "t", "r", "o", "p", "o", "l", "i", "t", "a", "n">>, <<"z", "u", "m", "a">>,
     <<"v", "e", "s", "p", "a">>, <<"r", "u", "c", "k", "u", "s">>,
     <<"s", "c", "o", "o", "p", "y">>, <<"p", "c", "x">>}

\* the comparison of the vehicle year with a cutoff year that leaves the
\* cutoff year itself eligible
Below(year, cutoff) == year < cutoff

\* "year <= cutoff" in the age rules of validate_vehicle_eligibility
AtOrBelow(year, cutoff) == year <= cutoff

\* validate_vehicle_eligibility
validate_vehicle_eligibility(year, make, model, vehicle_type) ==
    LET make_lower == Lower(make)
        model_lower == Lower(model)
        is_domestic_cruiser == AnyIn(DomesticCruiserMakes, make_lower)
        is_cruiser_type == vehicle_type \in {"cruiser", "domestic_cruiser"}
        is_metric == AnyIn(MetricMakes, make_lower)
        is_sport_model == AnyIn(SportModels, model_lower)
        is_metric_type == vehicle_type \in {"sport_bike", "metric", "standard", "sportbike"}
        is_side_by_side == AnyIn(SideBySideModels, model_lower)
        is_sxs_type == vehicle_type \in {"side_by_side", "sxs", "utv", "side-by-side"}
        is_atv == AnyIn(AtvModels, model_lower)
        is_atv_type == vehicle_type \in {"atv", "quad", "four_wheeler"}
        is_dirt_bike == AnyIn(DirtBikeModels, model_lower)
        is_dirt_type == vehicle_type \in {"dirt_bike", "mx", "motocross", "dirtbike", "enduro"}
        is_scooter == AnyIn(ScooterModels, model_lower)
        is_scooter_type == vehicle_type \in {"scooter", "moped"}
    IN IF AnyIn(electric_brands, make_lower) \/ AnyIn(electric_brands, model_lower)
       THEN Fail(MsgElectric)
       ELSE IF Contains(model_lower, <<"s", "l", "i", "n", "g", "s", "h", "o", "t">>) \/ Contains(make_lower, <<"s", "l", "i", "n", "g", "s", "h", "o", "t">>)
       THEN Fail(MsgSlingshot)
       ELSE IF (is_domestic_cruiser \/ is_cruiser_type) /\ AtOrBelow(year, 1999)
       THEN Fail(AgeMsg(<<"d", "o", "m", "e", "s", "t", "i", "c", " ", "c", "r", "u", "i", "s", "e", "r", "s">>, year))
       ELSE IF /\ (is_metric \/ is_sport_model \/ is_metric_type) /\ AtOrBelow(year, 2005)
               /\ vehicle_type \notin {"atv", "side_by_side", "utv", "dirt_bike"}
       THEN Fail(AgeMsg(<<"m", "e", "t", "r", "i", "c", " ", "m", "o", "t", "o", "r", "c", "y", "c", "l", "e", "s">>, year))
       ELSE IF (is_side_by_side \/ is_sxs_type) /\ AtOrBelow(year, 2009)
       THEN Fail(AgeMsg(<<"s", "i", "d", "e", "-", "b", "y", "-", "s", "i", "d", "e", "s">>, year))
       ELSE IF (is_atv \/ is_atv_type) /\ AtOrBelow(year, 2015)
       THEN Fail(AgeMsg(<<"A", "T", "V", "s">>, year))
       ELSE IF (is_dirt_bike \/ is_dirt_type) /\ AtOrBelow(year, 2015)
       THEN Fail(AgeMsg(<<"d", "i", "r", "t", " ", "b", "i", "k", "e", "s">>, year))
       ELSE IF (is_scooter \/ is_scooter_type) /\ AtOrBelow(year, 2015)
       THEN Fail(AgeMsg(<<"s", "c", "o", "o", "t", "e", "r", "s">>, year))
       ELSE Pass

\* categorize_rejection
categorize_rejection(rejection_message) ==
    LET msg_lower == Lower(rejection_message) IN
    IF Contains(msg_lower, <<"a", "l", "a", "s", "k", "a">>) \/ Contains(msg_lower, <<"h", "a", "w", "a", "i", "i">>)
    THEN "zip_code"
    ELSE IF Contains(msg_lower, <<"e", "l", "e", "c", "t", "r", "i", "c">>)
    THEN "electric"
    ELSE IF Contains(msg_lower, <<"s", "l", "i", "n", "g", "s", "h", "o", "t">>) \/ Contains(msg_lower, <<"n", "o", "t", " ", "i", "n", "t", "e", "r", "e", "s", "t", "e", "d">>)
    THEN "slingshot"
    ELSE IF Contains(msg_lower, <<"m", "a", "k", "e", " ", "a", "n", "d", " ", "m", "o", "d", "e", "l", " ", "d", "o", "n", "'", "t", " ", "m", "a", "t", "c", "h">>)
            \/ Contains(msg_lower, <<"m", "i", "s", "m", "a", "t", "c", "h">>)
    THEN "make_model_mismatch"
    ELSE IF \E k \in {<<"c", "r", "u", "i", "s", "e", "r">>, <<"m", "e", "t", "r", "i", "c">>, <<"s", "i", "d", "e", "-", "b", "y", "-", "s", "i", "d", "e">>,
                      <<"a", "t", "v">>, <<"d", "i", "r", "t", " ", "b", "i", "k", "e">>, <<"s", "c", "o", "o", "t", "e", "r">>} :
               Contains(msg_lower, k)
    THEN "vehicle_age"
    ELSE "unknown"

(***************************************************************************)
(* The lead API client, salesforce.create_lead                             *)
(***************************************************************************)
\* what the provider answers to the POST
ApiResponses == {"ok", "noid", "rejected", "httperr"}

\* the provider's answers possible under the configured settings; without
\* credentials create_lead returns before any request is made
ResponsesFor(c) == IF c THEN ApiResponses ELSE {"skipped"}

\* the value create_lead returns ("id": the record id as a string, "None"),
\* or "raise" when it raises
create_lead(resp) ==
    CASE resp = "skipped" -> "None"
      [] resp = "ok" -> "id"
      [] resp = "rejected" -> "raise"
      [] resp = "noid" -> "None"
      [] resp = "httperr" -> "raise"

\* the body create_lead posts to /api/Lead/LeadCreate, as far as it is
\* taken from the payload
ZipPlaceholder == <<"0", "0", "0", "0", "0">>
LeadCreateData(payload) ==
    [email |-> Get(payload, "email"),
     phone |-> Get(payload, "phone"),
     zip |-> IF "zipcode" \in DOMAIN payload THEN payload["zipcode"] ELSE ZipPlaceholder,
     make |-> Get(payload, "vehicle_make"),
     model |-> Get(payload, "vehicle_model"),
     state |-> Get(payload, "address")]

\* one entry of createLog: who invoked create_lead for which session row,
\* with which payload, whether a request went out, and the answer
CreateEntry(src, sid, payload, resp) ==
    [src |-> src, session_id |-> sid, payload |-> payload,
     sent |-> resp # "skipped", resp |-> resp, result |-> create_lead(resp)]

(***************************************************************************)
(* Rows                                                                    *)
(***************************************************************************)
\* a reply, or the last_prompt column of a row, by what it asks: the kind
\* of the question and the field it asks for
Question(kind, field) == [kind |-> kind, field |-> field]
NoQuestion == Question("", "")
Welcome == Question("welcome", "full_name")

\* models.ConversationSession
NewSession(channel, key) ==
    [channel |-> channel, session_key |-> key, state |-> EmptyMap,
     status |-> "open", last_prompt_field |-> "", last_prompt |-> NoQuestion]

\* a failed_leads row that counts the in-call attempt as a retry
NewFailedLeadCounted(data, err, channel, sid) ==
    [lead_data |-> data, error_message |-> <<err>>, channel |-> channel,
     session_id |-> sid, retry_count |-> 1, resolved |-> 0]

\* models.FailedLead; retry_count and resolved take their column defaults
NewFailedLead(data, err, channel, sid) ==
    [lead_data |-> data, error_message |-> <<err>>, channel |-> channel,
     session_id |-> sid, retry_count |-> 0, resolved |-> 0]

\* "lead_result if isinstance(lead_result, dict) else None": create_lead
\* returns the record id as a string, or None
StoredResponse(lead_result) ==
    IF lead_result \in {"id", "None"} THEN "None" ELSE lead_result

\* a succeeded_leads row without the link to its session
NewSucceededLeadUnlinked(data, channel, sid, resp) ==
    [lead_data |-> data, channel |-> channel, session_id |-> 0,
     npa_response |-> resp]

\* models.SucceededLead
NewSucceededLead(data, channel, sid, resp) ==
    [lead_data |-> data, channel |-> channel, session_id |-> sid,
     npa_response |-> resp]

\* the ids of the rows a query selects, in id order
RowsWhere(table, P(_)) == {i \in 1..Len(table) : P(table[i])}

\* Query.first(): None (0) when nothing is selected; the queries carry no
\* ORDER BY, so any selected row may come first
First(ids) == IF ids = {} THEN {0} ELSE ids

(***************************************************************************)
(* The streaming voice handler, TwilioMediaStreamHandler                   *)
(***************************************************************************)
\* __init__ has not run yet for this instance; queried and obj are the key
\* and the answer of the query of _get_or_create_session; hangup is the
\* history of what the handler did to end the call on the telephony socket
NoHandler ==
    [pc |-> "new", call_sid |-> "", queried |-> "", obj |-> 0, session |-> 0,
     caller_phone |-> <<>>,
     should_hangup |-> FALSE, tw |-> "idle", oa |-> "idle",
     turn_number |-> 0, transcript |-> FALSE, fn |-> "", sent |-> <<>>,
     hangup |-> <<>>, deltas |-> <<>>, frames |-> <<>>, missing |-> <<>>]

\* the query of _get_or_create_session: the open voice row for the call id
OpenVoiceRow(tbl, call_sid) ==
    First(RowsWhere(tbl, LAMBDA r : r.channel = "voice"
                                    /\ r.session_key = call_sid
                                    /\ r.status = "open"))

\* what a get-or-create handed back: the row, its status and whether its
\* field map was empty at that moment, and whether this call created the row
Got(src, id, tbl, fresh) ==
    [src |-> src, id |-> id, status |-> tbl[id].status,
     blank |-> tbl[id].state = EmptyMap, fresh |-> fresh]

\* asyncio.gather has returned and cleanup() has run once both pumps are over
Ended(hr) == IF hr.tw = "done" /\ hr.oa = "done" THEN [hr EXCEPT !.pc = "ended"] ELSE hr

\* values the engine passes to save_lead_field
SaveInputs ==
    {<<"full_name", NameTim>>,
     <<"zip_code", Zip30093>>, <<"zip_code", Zip30093Plus4>>,
     <<"zip_code", Zip99501>>, <<"zip_code", Zip3009>>,
     <<"phone", Phone720>>,
     <<"vehicle_make", Yamaha>>, <<"vehicle_make", Zero>>,
     <<"vehicle_model", Grizzly>>,
     <<"vehicle_year", Year2020>>,
     <<"sms_consent", Yes>>,
     <<"", <<>> >>}

\* values the engine passes to save_lead_field that the validators of
\* validation.py reject
InvalidSaveInputs ==
    {<<"vehicle_year", Year3009>>, <<"phone", Zip3009>>, <<"email", EmailBad>>}

\* the caller number Twilio passes in the start event's customParameters
CallerPhones == {<<>>, Phone720}

\* TwilioMediaStreamHandler.__init__ and start() up to the two pumps, with
\* _get_or_create_session run in one piece
HandlerStart(h, call_sid) ==
    /\ handlers[h].pc = "new"
    /\ \E obj \in OpenVoiceRow(sessions, call_sid) :
          LET tbl == IF obj # 0 THEN sessions
                     ELSE Append(sessions, NewSession("voice", call_sid))
              id == IF obj # 0 THEN obj ELSE Len(tbl)
          IN /\ Len(tbl) <= MaxSessions
             /\ sessions' = tbl
             /\ lastGot' = Got("voice", id, tbl, obj = 0)
             /\ handlers' = [handlers EXCEPT ![h] =
                    [NoHandler EXCEPT !.pc = "run", !.call_sid = call_sid,
                                      !.queried = call_sid, !.obj = obj,
                                      !.session = id, !.tw = "run", !.oa = "run"]]
    /\ UNCHANGED <<failed, succeeded, rejected, createLog, creds, turns, summary, given, outcome, ops>>

\* TwilioMediaStreamHandler.__init__ and _get_or_create_session up to the
\* answer of its query, for a server process of its own: the statements of
\* other processes on the shared database may come before the insert
Lookup(h, call_sid) ==
    /\ handlers[h].pc = "new"
    /\ \E obj \in OpenVoiceRow(sessions, call_sid) :
          handlers' = [handlers EXCEPT ![h] =
              [NoHandler EXCEPT !.pc = "looked", !.call_sid = call_sid,
                                !.queried = call_sid, !.obj = obj]]
    /\ UNCHANGED <<sessions, failed, succeeded, rejected, createLog, lastGot, creds, turns, summary, given, outcome, ops>>

\* _get_or_create_session from the answer of its query on: the row found is
\* returned, or a new row is inserted; then start() runs the two pumps
Insert(h) ==
    LET hr == handlers[h]
        tbl == IF hr.obj # 0 THEN sessions
               ELSE Append(sessions, NewSession("voice", hr.call_sid))
        id == IF hr.obj # 0 THEN hr.obj ELSE Len(tbl)
    IN
    /\ hr.pc = "looked"
    /\ Len(tbl) <= MaxSessions
    /\ sessions' = tbl
    /\ lastGot' = Got("voice", id, tbl, hr.obj = 0)
    /\ handlers' = [handlers EXCEPT ![h] =
           [hr EXCEPT !.pc = "run", !.session = id, !.tw = "run", !.oa = "run"]]
    /\ UNCHANGED <<failed, succeeded, rejected, createLog, creds, turns, summary, given, outcome, ops>>

\* a start event that resolves the true call id to a row of its own,
\* leaving the placeholder row behind
TwilioStartSecondRow(h, call_sid, caller_phone) ==
    LET hr == handlers[h]
        moved == hr.call_sid = PENDING /\ hr.session # 0
    IN
    /\ hr.pc = "run" /\ hr.tw = "run"
    /\ Len(sessions) < MaxSessions
    /\ sessions' = IF moved THEN Append(sessions, NewSession("voice", call_sid))
                    ELSE sessions
    /\ handlers' = [handlers EXCEPT ![h] =
           [hr EXCEPT !.call_sid = call_sid,
                      !.session = IF moved THEN Len(sessions) + 1 ELSE @]]
    /\ UNCHANGED <<failed, succeeded, rejected, createLog, lastGot, creds, turns, summary, given, outcome, ops>>

\* a start event that also stored the caller's number in the field map
TwilioStartStoresPhone(h, call_sid, caller_phone) ==
    LET hr == handlers[h] IN
    /\ hr.pc = "run" /\ hr.tw = "run"
    /\ sessions' = IF hr.call_sid = PENDING /\ hr.session # 0
                    THEN [sessions EXCEPT ![hr.session].session_key = call_sid,
                                          ![hr.session].state = Put(@, "phone", caller_phone)]
                    ELSE sessions
    /\ handlers' = [handlers EXCEPT ![h] =
           [hr EXCEPT !.call_sid = call_sid,
                      !.caller_phone = IF Truthy(caller_phone) THEN caller_phone ELSE @]]
    /\ UNCHANGED <<failed, succeeded, rejected, createLog, lastGot, creds, turns, summary, given, outcome, ops>>

\* _handle_twilio_messages, event "start"
TwilioStart(h, call_sid, caller_phone) ==
    LET hr == handlers[h] IN
    /\ hr.pc = "run" /\ hr.tw = "run"
    /\ sessions' = IF hr.call_sid = PENDING /\ hr.session # 0
                    THEN [sessions EXCEPT ![hr.session].session_key = call_sid]
                    ELSE sessions
    /\ handlers' = [handlers EXCEPT ![h] =
           [hr EXCEPT !.call_sid = call_sid,
                      !.caller_phone = IF Truthy(caller_phone) THEN caller_phone ELSE @]]
    /\ UNCHANGED <<failed, succeeded, rejected, createLog, lastGot, creds, turns, summary, given, outcome, ops>>

\* a stop event that closed the session of the call
TwilioStopCloses(h) ==
    LET hr == handlers[h] IN
    /\ hr.pc = "run" /\ hr.tw = "run"
    /\ handlers' = [handlers EXCEPT ![h] = Ended([hr EXCEPT !.tw = "done"])]
    /\ sessions' = [sessions EXCEPT ![hr.session].status = "closed"]
    /\ UNCHANGED <<failed, succeeded, rejected, createLog, lastGot, creds, turns, summary, given, outcome, ops>>

\* _handle_twilio_messages, event "stop" (or the telephony socket closing):
\* the telephony pump returns
TwilioStop(h) ==
    LET hr == handlers[h] IN
    /\ hr.pc = "run" /\ hr.tw = "run"
    /\ handlers' = [handlers EXCEPT ![h] = Ended([hr EXCEPT !.tw = "done"])]
    /\ UNCHANGED <<sessions, failed, succeeded, rejected, createLog, lastGot, creds, turns, summary, given, outcome, ops>>

\* the engine socket closes: the async for of _handle_openai_messages ends
OpenAIClosed(h) ==
    LET hr == handlers[h] IN
    /\ hr.pc = "run" /\ hr.oa = "run"
    /\ handlers' = [handlers EXCEPT ![h] = Ended([hr EXCEPT !.oa = "done"])]
    /\ UNCHANGED <<sessions, failed, succeeded, rejected, createLog, lastGot, creds, turns, summary, given, outcome, ops>>

\* self.stream_sid is set: by the constructor together with the true call
\* id, or by the start event
HasStream(hr) == hr.call_sid # PENDING

\* _handle_twilio_messages, event "media": the frame is sent to the engine
\* socket; once that socket is closed the send raises, the outer except
\* logs it and the telephony pump returns
TwilioMedia(h) ==
    LET hr == handlers[h] IN
    /\ hr.pc = "run" /\ hr.tw = "run"
    /\ handlers' = [handlers EXCEPT ![h] =
           IF hr.oa \in {"run", "drain"} THEN hr ELSE Ended([hr EXCEPT !.tw = "done"])]
    /\ UNCHANGED <<sessions, failed, succeeded, rejected, createLog, lastGot, creds, turns, summary, given, outcome, ops>>

\* _handle_openai_messages, response.audio.delta: the delta is sent to the
\* telephony socket when the stream id is known; after the telephony pump
\* has returned the socket is closing, and the send either still goes
\* through (delivered) or raises, and then the engine pump returns
AudioDelta(h, delivered) ==
    LET hr == handlers[h]
        audio_data == Len(hr.deltas) + 1
        heard == IF hr.tw = "run"
                 THEN [hr EXCEPT !.deltas = Append(@, audio_data),
                                 !.frames = IF HasStream(hr) THEN Append(@, audio_data) ELSE @]
                 ELSE hr
    IN
    /\ hr.pc = "run" /\ hr.oa = "run"
    /\ hr.tw = "run" => Len(hr.deltas) < MaxAudio
    /\ handlers' = [handlers EXCEPT ![h] =
           IF HasStream(hr) /\ hr.tw = "done" /\ ~delivered
           THEN Ended([hr EXCEPT !.oa = "done"])
           ELSE heard]
    /\ UNCHANGED <<sessions, failed, succeeded, rejected, createLog, lastGot, creds, turns, summary, given, outcome, ops>>

\* response.audio.delta arriving while the engine pump waits in
\* asyncio.sleep(15): the event stays in the engine socket, and the pump
\* returns after the wait without reading it
AudioDeltaUnread(h) ==
    LET hr == handlers[h] IN
    /\ hr.pc = "run" /\ hr.oa = "drain" /\ hr.tw = "run"
    /\ Len(hr.deltas) < MaxAudio
    /\ handlers' = [handlers EXCEPT ![h].deltas = Append(@, Len(@) + 1)]
    /\ UNCHANGED <<sessions, failed, succeeded, rejected, createLog, lastGot, creds, turns, summary, given, outcome, ops>>

\* what the handler does to end the call: the drain wait, the mark event
\* and the close of the telephony socket; and
\* the messages the bridge sends to the engine for a function call:
\* conversation.item.create with a function_call_output whose output has
\* success true or false, and response.create
Drain == "sleep 15"
Mark == "mark call_complete"
Close1000 == "close 1000 call_complete"
OutputSuccess == "output success"
OutputFailure == "output failure"
ResponseCreate == "response.create"

\* the zip_code branch of save_lead_field: the cleaned value, or an error
CleanZip(field_value) ==
    LET all == DigitsOf(field_value)
        zip_digits == IF Len(all) > 5 THEN SubSeq(all, 1, 5) ELSE all
    IN IF Len(zip_digits) # 5 THEN [error |-> "digits", value |-> field_value]
       ELSE IF \E p \in AlaskaPrefixes : StartsWith(zip_digits, p)
       THEN [error |-> "alaska", value |-> field_value]
       ELSE IF \E p \in HawaiiPrefixes : StartsWith(zip_digits, p)
       THEN [error |-> "hawaii", value |-> field_value]
       ELSE [error |-> "", value |-> zip_digits]

\* validation and cleaning of one save_lead_field value
CleanField(field_name, field_value) ==
    IF field_name = "zip_code" THEN CleanZip(field_value)
    ELSE [error |-> "", value |-> field_value]

\* what save_lead_field sends to the engine, in order: the function call
\* output if any, then the response.create that follows every function call
SaveReplies(field_name, field_value, error) ==
    IF field_name # "" /\ Truthy(field_value)
    THEN IF error # "" THEN <<OutputFailure, ResponseCreate>>
         ELSE <<OutputSuccess, ResponseCreate>>
    ELSE <<ResponseCreate>>

\* _handle_openai_messages, response.function_call_arguments.done with
\* name = save_lead_field; fn and sent record the function call and what
\* the bridge sent to the engine for it
SaveField(h, field_name, field_value) ==
    LET hr == handlers[h]
        c == CleanField(field_name, field_value)
    IN
    /\ hr.pc = "run" /\ hr.oa = "run"
    /\ sessions' = IF field_name # "" /\ Truthy(field_value) /\ c.error = ""
                   THEN [sessions EXCEPT ![hr.session].state = Put(@, field_name, c.value)]
                   ELSE sessions
    /\ handlers' = [handlers EXCEPT ![h] =
           [hr EXCEPT !.fn = "save_lead_field",
                      !.sent = SaveReplies(field_name, field_value, c.error)]]
    /\ UNCHANGED <<failed, succeeded, rejected, createLog, lastGot, creds, turns, summary, given, outcome, ops>>

\* _handle_openai_messages, response.function_call_arguments.done whose
\* arguments json.loads rejects: the handler for the event is left through
\* its except branch, which only logs
FunctionCallUnparsed(h, name) ==
    LET hr == handlers[h] IN
    /\ hr.pc = "run" /\ hr.oa = "run"
    /\ handlers' = [handlers EXCEPT ![h] = [hr EXCEPT !.fn = name, !.sent = <<>>]]
    /\ UNCHANGED <<sessions, failed, succeeded, rejected, createLog, lastGot, creds, turns, summary, given, outcome, ops>>

VoicePlus == <<"v", "o", "i", "c", "e", "+">>
AtPowersportBuyers == <<"@", "p", "o", "w", "e", "r", "s", "p", "o", "r", "t", "b", "u", "y", "e", "r", "s", ".", "c", "o", "m">>

\* the email a voice lead gets when none was collected
DummyEmail(state, caller_phone) ==
    LET phone == IF Truthy(Get(state, "phone")) THEN Get(state, "phone") ELSE caller_phone
        phone_digits == DigitsOf(phone)
    IN IF Truthy(Get(state, "email")) \/ phone_digits = <<>> THEN state
       ELSE Put(state, "email", VoicePlus \o phone_digits \o AtPowersportBuyers)

\* _handle_openai_messages, response.function_call_arguments.done with
\* name = submit_lead; resp is the provider's answer if a request goes out
SubmitLead(h, resp) ==
    LET hr == handlers[h]
        sid == hr.session
        state == DummyEmail(sessions[sid].state, hr.caller_phone)
        miss == missing_fields(state)
        npa_lead_data == Pop(state, "sms_consent")
        lead_result == create_lead(resp)
    IN
    /\ hr.pc = "run" /\ hr.oa = "run"
    /\ IF miss = <<>>
       THEN /\ Len(createLog) < MaxCreate
            /\ createLog' = Append(createLog, CreateEntry("voice", sid, npa_lead_data, resp))
            /\ IF lead_result # "raise"
               THEN /\ sessions' = [sessions EXCEPT ![sid].state = state,
                                                    ![sid].status = "closed"]
                    /\ succeeded' = Append(succeeded,
                           NewSucceededLead(state, "voice", sid,
                                            StoredResponse(lead_result)))
                    /\ failed' = failed
               ELSE /\ sessions' = [sessions EXCEPT ![sid].state = state]
                    /\ failed' = Append(failed, NewFailedLead(state, resp, "voice", sid))
                    /\ succeeded' = succeeded
            /\ handlers' = [handlers EXCEPT ![h] =
                   [hr EXCEPT !.should_hangup = TRUE, !.fn = "submit_lead",
                              !.missing = <<>>,
                              !.sent = <<OutputSuccess, ResponseCreate>>]]
       ELSE /\ sessions' = [sessions EXCEPT ![sid].state = state]
            /\ handlers' = [handlers EXCEPT ![h] =
                   [hr EXCEPT !.fn = "submit_lead",
                              !.missing = miss,
                              !.sent = <<OutputFailure, ResponseCreate>>]]
            /\ UNCHANGED <<failed, succeeded, createLog>>
    /\ UNCHANGED <<rejected, lastGot, creds, turns, summary, given, outcome, ops>>

\* _handle_openai_messages, conversation.item.input_audio_transcription
\* .completed or response.audio_transcript.done with a transcript: the
\* handler holds a transcript for the turn
Transcript(h) ==
    LET hr == handlers[h] IN
    /\ hr.pc = "run" /\ hr.oa = "run"
    /\ handlers' = [handlers EXCEPT ![h].transcript = TRUE]
    /\ UNCHANGED <<sessions, failed, succeeded, rejected, createLog, lastGot, creds, turns, summary, given, outcome, ops>>

\* models.ConversationTurn as _log_conversation_turn fills it
NewTurn(hr) ==
    [session_id |-> hr.session, channel |-> "voice", turn_number |-> hr.turn_number]

\* _log_conversation_turn without its except branch: the error of the
\* commit leaves the engine pump
LogTurnRaises(hr, db_ok) ==
    IF ~hr.transcript THEN hr
    ELSE IF db_ok THEN [hr EXCEPT !.turn_number = @ + 1, !.transcript = FALSE]
    ELSE Ended([hr EXCEPT !.turn_number = @ + 1, !.oa = "done"])

\* the handler after response.done has logged the turn: _log_conversation_turn
\* runs when a transcript is held, counts the turn, and resets the
\* transcripts after the commit; when the commit raises, the except branch
\* only logs
LogTurn(hr, db_ok) ==
    IF ~hr.transcript THEN hr
    ELSE [hr EXCEPT !.turn_number = @ + 1,
                    !.transcript = IF db_ok THEN FALSE ELSE @]

\* _handle_openai_messages, response.done: the turn is logged (db_ok: the
\* commit of the turn row succeeds); once a submission has armed the
\* hangup, the engine pump enters the drain wait, asyncio.sleep(15), during
\* which it reads no engine message while the telephony pump goes on
ResponseDone(h, db_ok) ==
    LET hr == handlers[h]
        logged == LogTurn(hr, db_ok)
    IN
    /\ hr.pc = "run" /\ hr.oa = "run"
    /\ hr.transcript => hr.turn_number < MaxTurns
    /\ turns' = IF hr.transcript /\ db_ok THEN Append(turns, NewTurn(logged)) ELSE turns
    /\ handlers' = [handlers EXCEPT ![h] =
           IF hr.should_hangup
           THEN [logged EXCEPT !.oa = "drain", !.hangup = Append(@, Drain)]
           ELSE logged]
    /\ UNCHANGED <<sessions, failed, succeeded, rejected, createLog, lastGot, creds, summary, given, outcome, ops>>

\* how the two sends after the drain wait can end: send_json of the mark
\* and close(code=1000) go through on an open telephony socket; each raises
\* once the peer has closed the socket, which it may do at any await, and
\* is sure not to have done only while the mark went through
HangUpOutcomes ==
    {<<TRUE, TRUE>>, <<TRUE, FALSE>>, <<FALSE, FALSE>>}

\* a hangup whose close goes through although the mark was not sent
HangUpCloses(h, mark_ok, close_ok) ==
    LET hr == handlers[h] IN
    /\ hr.pc = "run" /\ hr.oa = "drain"
    /\ <<mark_ok, close_ok>> \in HangUpOutcomes
    /\ handlers' = [handlers EXCEPT ![h] =
           Ended([hr EXCEPT !.oa = "done", !.tw = "done",
                            !.hangup = @ \o <<Close1000>>])]
    /\ UNCHANGED <<sessions, failed, succeeded, rejected, createLog, lastGot, creds, turns, summary, given, outcome, ops>>

\* _handle_openai_messages, response.done after the drain wait: the mark
\* event call_complete is sent (a failure is only logged), the telephony
\* socket is closed with code 1000 (a failure is only logged), and the
\* engine pump returns; the telephony pump ends with its socket
HangUp(h, mark_ok, close_ok) ==
    LET hr == handlers[h] IN
    /\ hr.pc = "run" /\ hr.oa = "drain"
    /\ <<mark_ok, close_ok>> \in HangUpOutcomes
    /\ handlers' = [handlers EXCEPT ![h] =
           Ended([hr EXCEPT !.oa = "done", !.tw = "done",
                            !.hangup = @ \o (IF mark_ok THEN <<Mark>> ELSE <<>>)
                                         \o (IF close_ok THEN <<Close1000>> ELSE <<>>)])]
    /\ UNCHANGED <<sessions, failed, succeeded, rejected, createLog, lastGot, creds, turns, summary, given, outcome, ops>>

(***************************************************************************)
(* The turn processor, app/llm.py                                          *)
(***************************************************************************)
WordChar == Letter \cup Digit \cup {"_"}

\* YEAR_RE matches s[i..i+3]: 19dd or 20dd between two word boundaries
YearAt(s, i) ==
    /\ i + 3 <= Len(s)
    /\ <<s[i], s[i + 1]>> \in {<<"1", "9">>, <<"2", "0">>}
    /\ s[i + 2] \in Digit /\ s[i + 3] \in Digit
    /\ IF i = 1 THEN TRUE ELSE s[i - 1] \notin WordChar
    /\ IF i + 3 = Len(s) THEN TRUE ELSE s[i + 4] \notin WordChar

\* YEAR_RE.search(s), then m.group(1) if there is a match
YearSearch(s) ==
    LET at == {i \in 1..Len(s) : YearAt(s, i)}
        i == CHOOSE i \in at : \A j \in at : i <= j
    IN IF at = {} THEN s ELSE SubSeq(s, i, i + 3)

\* normalize_fields
normalize_fields(fields) ==
    LET kept == {k \in DOMAIN fields : Strip(fields[k]) # <<>>}
    IN [k \in kept |-> IF k = "vehicle_year" THEN YearSearch(Strip(fields[k]))
                       ELSE Strip(fields[k])]

\* the keys of FIELD_PRETTY
FieldNames == {REQUIRED_FIELDS[i] : i \in DOMAIN REQUIRED_FIELDS}

\* extract_and_prompt, extracted: the fields of FIELD_PRETTY that the JSON
\* object the language model answered holds ({} when the call failed)
Extracted(data) ==
    [k \in {f \in DOMAIN data \cap FieldNames : Truthy(data[f])} |-> data[k]]

\* extract_and_prompt, the fields it returns
extract_and_prompt(data) == normalize_fields(Extracted(data))

\* a default question that asks for the last missing field
next_question_last(data, state) ==
    LET miss == missing_fields(Merge(state, Extracted(data)))
    IN IF "next_question" \in DOMAIN data /\ Truthy(data["next_question"])
       THEN Question("model", "")
       ELSE IF miss # <<>> THEN Question("default", miss[Len(miss)])
       ELSE NoQuestion

\* extract_and_prompt, next_q: the question the language model proposes,
\* in its own words, else the default question for the first field missing
\* from the known fields and the extracted ones
next_question(data, state) ==
    LET miss == missing_fields(Merge(state, Extracted(data)))
    IN IF "next_question" \in DOMAIN data /\ Truthy(data["next_question"])
       THEN Question("model", "")
       ELSE IF miss # <<>> THEN Question("default", miss[1])
       ELSE NoQuestion

TrueValue == <<"True">>

\* process_turn, the end of a turn whose fields are all present
Rejection(new_state, verdict) ==
    IF ~verdict.ok
    THEN [state |-> Put(Put(new_state, "_rejected", TrueValue),
                        "_rejection_reason", verdict.msg),
          done |-> TRUE, reply |-> "rejection", next_q |-> Question("rejection", "")]
    ELSE [state |-> new_state, done |-> TRUE, reply |-> "thanks",
          next_q |-> Question("thanks", "")]

\* the business rules of process_turn, in its order: the first rule that
\* fails gives the rejection reason
BusinessRules(new_state) ==
    LET zip_code == Get(new_state, "zip_code")
        vehicle_make == Get(new_state, "vehicle_make")
        vehicle_model == Get(new_state, "vehicle_model")
        vehicle_year == Get(new_state, "vehicle_year")
        rule1 == IF Truthy(zip_code) THEN validate_zip_code(zip_code) ELSE Pass
        rule2 == IF Truthy(vehicle_make) /\ Truthy(vehicle_model)
                 THEN validate_make_model_match(vehicle_make, vehicle_model)
                 ELSE Pass
        year_int == IF IsDigits(vehicle_year) THEN ToInt(vehicle_year) ELSE 0
        rule3 == IF Truthy(vehicle_year) /\ Truthy(vehicle_make) /\ Truthy(vehicle_model)
                 THEN validate_vehicle_eligibility(
                          year_int, vehicle_make, vehicle_model,
                          categorize_vehicle_type(vehicle_make, vehicle_model))
                 ELSE Pass
    IN IF ~rule1.ok THEN rule1
       ELSE IF ~rule2.ok THEN rule2
       ELSE rule3

\* process_turn from the merge of the validated fields on: done, the
\* business rules and the reply; errors are the fields whose value failed
\* validation, in the order of the loop, and next_q is the question of
\* extract_and_prompt
TurnResult(new_state, errors, next_q) ==
    IF errors # <<>>
    THEN [state |-> new_state, done |-> FALSE, reply |-> "again",
          next_q |-> Question("again", errors[1])]
    ELSE IF missing_fields(new_state) # <<>>
    THEN [state |-> new_state, done |-> FALSE, reply |-> "question", next_q |-> next_q]
    ELSE Rejection(new_state, BusinessRules(new_state))

\* process_turn, the validation loop over the extracted fields
ValidateTurn(state, extracted, next_q) ==
    LET valid == {f \in DOMAIN extracted :
                     validate_and_normalize_field(f, extracted[f]).is_valid}
        validated_fields == [k \in valid |->
                                validate_and_normalize_field(k, extracted[k]).value]
        errors == SelectSeq(REQUIRED_FIELDS, LAMBDA f : f \in DOMAIN extracted \ valid)
    IN TurnResult(Merge(state, validated_fields), errors, next_q)

\* process_turn: the new field map, done, and the reply
process_turn(data, state) ==
    ValidateTurn(state, extract_and_prompt(data), next_question(data, state))

(***************************************************************************)
(* The SMS webhook, main.twilio_sms                                        *)
(***************************************************************************)
Unknown == <<"u", "n", "k", "n", "o", "w", "n">>
SmsChannel == <<"s", "m", "s">>

reset_keywords ==
    {<<"h", "i">>, <<"h", "e", "l", "l", "o">>, <<"r", "e", "s", "t", "a", "r", "t">>,
     <<"r", "e", "s", "e", "t">>, <<"s", "t", "a", "r", "t", " ", "o", "v", "e", "r">>,
     <<"s", "t", "a", "r", "t", " ", "a", "g", "a", "i", "n">>, <<"b", "e", "g", "i", "n">>}

\* extract_caller_phone, the normalized number (<<>> for None)
extract_caller_phone(from_number) ==
    IF ~Truthy(from_number) \/ from_number = Unknown THEN <<>>
    ELSE IF ~validate_phone(from_number) THEN <<>>
    ELSE normalize_phone(from_number)

\* the query of main.get_or_create_session: any row of the channel and key
AnyRow(tbl, channel, key) ==
    First(RowsWhere(tbl, LAMBDA r : r.channel = channel /\ r.session_key = key))

\* twilio_sms from process_turn's result on: the row as it is committed
\* when create_lead is not invoked or returns, and the payload of the
\* invocation
SmsCommit(tbl, sid, turn, call) ==
    LET session == tbl[sid]
        miss == missing_fields(turn.state)
        new_state == IF call THEN Put(turn.state, "_channel", SmsChannel) ELSE turn.state
    IN [sessions |->
           [tbl EXCEPT ![sid] =
               [session EXCEPT
                   !.state = new_state,
                   !.last_prompt_field = IF ~turn.done /\ miss # <<>> THEN miss[1] ELSE @,
                   !.last_prompt = IF ~turn.done /\ miss # <<>> THEN turn.next_q ELSE @,
                   !.status = IF call THEN "closed" ELSE @]],
        call |-> call, payload |-> new_state]

\* twilio_sms, "if done and session.status != 'closed'"
SmsDone(tbl, sid, turn) ==
    SmsCommit(tbl, sid, turn, turn.done /\ tbl[sid].status # "closed")

\* twilio_sms after get_or_create_session, on row sid of tbl
SmsTurn(tbl, sid, from_number, body, data) ==
    LET session == tbl[sid]
        caller_phone == extract_caller_phone(from_number)
        current_state == IF ~Truthy(Get(session.state, "phone")) /\ Truthy(caller_phone)
                         THEN Put(session.state, "phone", caller_phone)
                         ELSE session.state
    IN IF AnyIn(reset_keywords, Lower(body))
       THEN [sessions |-> [tbl EXCEPT ![sid] =
                              [session EXCEPT !.state = EmptyMap,
                                              !.last_prompt_field = "full_name",
                                              !.last_prompt = Welcome,
                                              !.status = "open"]],
             call |-> FALSE, payload |-> EmptyMap]
       ELSE IF session.last_prompt_field = ""
       THEN [sessions |-> [tbl EXCEPT ![sid] =
                              [session EXCEPT !.state = current_state,
                                              !.last_prompt_field = "full_name",
                                              !.last_prompt = Welcome]],
             call |-> FALSE, payload |-> EmptyMap]
       ELSE SmsDone(tbl, sid, process_turn(data, current_state))

\* a text message and what the language model extracts from it
VehicleData(make, model, year) ==
    Put(Put(Put(EmptyMap, "vehicle_make", make), "vehicle_model", model),
        "vehicle_year", year)

BodyHi == <<"H", "i">>
EmailSpoken == <<"t", " ", "a", "t", " ", "y", ".", "c", "o">>
SmsInputs ==
    {<<BodyHi, EmptyMap>>,
     <<NameTim, EmptyMap>>,
     <<NameTim, Put(EmptyMap, "full_name", NameTim)>>,
     <<Zip30093, Put(EmptyMap, "zip_code", Zip30093)>>,
     <<Zip99501, Put(EmptyMap, "zip_code", Zip99501)>>,
     <<EmailSpoken, Put(EmptyMap, "email", EmailSpoken)>>,
     <<EmailBad, Put(EmptyMap, "email", EmailBad)>>,
     <<Grizzly, VehicleData(Yamaha, Grizzly, Year2020)>>,
     <<Grizzly, VehicleData(Yamaha, Grizzly, Year2015)>>}

\* twilio_sms from the session row on; resp is the provider's answer if
\* create_lead is invoked.  When create_lead raises, the request ends before
\* db.commit() and the table stays as get_or_create_session left it.
SmsRequest(tbl, sid, fresh, out) ==
    /\ Len(tbl) <= MaxSessions
    /\ lastGot' = Got("sms", sid, tbl, fresh)
    /\ IF out.call
       THEN /\ Len(createLog) < MaxCreate
            /\ \E resp \in ResponsesFor(creds) :
                  /\ createLog' = Append(createLog,
                         CreateEntry("sms", sid, out.payload, resp))
                  /\ sessions' = IF create_lead(resp) = "raise" THEN tbl
                                 ELSE out.sessions
       ELSE /\ createLog' = createLog
            /\ sessions' = out.sessions
    /\ UNCHANGED <<failed, succeeded, rejected, handlers, creds, turns, summary, given, outcome, ops>>

\* twilio_sms: one inbound text message, from get_or_create_session to the
\* reply
Sms(from_number, body, data) ==
    \E obj \in AnyRow(sessions, "sms", from_number) :
        IF obj # 0
        THEN SmsRequest(sessions, obj, FALSE,
                 SmsTurn(sessions, obj, from_number, body, data))
        ELSE SmsRequest(Append(sessions, NewSession("sms", from_number)),
                 Len(sessions) + 1, TRUE,
                 SmsTurn(Append(sessions, NewSession("sms", from_number)),
                         Len(sessions) + 1, from_number, body, data))

(***************************************************************************)
(* The turn-based voice flow, twilio_voice_ivr and twilio_voice_ivr_collect *)
(***************************************************************************)
\* NATO_ALPHABET
NATO_ALPHABET ==
    "a" :> <<"A", "l", "p", "h", "a">> @@
    "b" :> <<"B", "r", "a", "v", "o">> @@
    "c" :> <<"C", "h", "a", "r", "l", "i", "e">> @@
    "d" :> <<"D", "e", "l", "t", "a">> @@
    "e" :> <<"E", "c", "h", "o">> @@
    "f" :> <<"F", "o", "x", "t", "r", "o", "t">> @@
    "g" :> <<"G", "o", "l", "f">> @@
    "h" :> <<"H", "o", "t", "e", "l">> @@
    "i" :> <<"I", "n", "d", "i", "a">> @@
    "j" :> <<"J", "u", "l", "i", "e", "t">> @@
    "k" :> <<"K", "i", "l", "o">> @@
    "l" :> <<"L", "i", "m", "a">> @@
    "m" :> <<"M", "i", "k", "e">> @@
    "n" :> <<"N", "o", "v", "e", "m", "b", "e", "r">> @@
    "o" :> <<"O", "s", "c", "a", "r">> @@
    "p" :> <<"P", "a", "p", "a">> @@
    "q" :> <<"Q", "u", "e", "b", "e", "c">> @@
    "r" :> <<"R", "o", "m", "e", "o">> @@
    "s" :> <<"S", "i", "e", "r", "r", "a">> @@
    "t" :> <<"T", "a", "n", "g", "o">> @@
    "u" :> <<"U", "n", "i", "f", "o", "r", "m">> @@
    "v" :> <<"V", "i", "c", "t", "o", "r">> @@
    "w" :> <<"W", "h", "i", "s", "k", "e", "y">> @@
    "x" :> <<"X", "-", "r", "a", "y">> @@
    "y" :> <<"Y", "a", "n", "k", "e", "e">> @@
    "z" :> <<"Z", "u", "l", "u">> @@
    "0" :> <<"Z", "e", "r", "o">> @@
    "1" :> <<"O", "n", "e">> @@
    "2" :> <<"T", "w", "o">> @@
    "3" :> <<"T", "h", "r", "e", "e">> @@
    "4" :> <<"F", "o", "u", "r">> @@
    "5" :> <<"F", "i", "v", "e">> @@
    "6" :> <<"S", "i", "x">> @@
    "7" :> <<"S", "e", "v", "e", "n">> @@
    "8" :> <<"E", "i", "g", "h", "t">> @@
    "9" :> <<"N", "i", "n", "e">>

UpperChar(c) ==
    IF \E i \in 1..26 : LowerCase[i] = c
    THEN UpperCase[CHOOSE i \in 1..26 : LowerCase[i] = c]
    ELSE c

\* s.replace('.', ' dot ')
RECURSIVE DotsSpoken(_)
DotsSpoken(s) ==
    IF s = <<>> THEN <<>>
    ELSE IF Head(s) = "." THEN <<" ", "d", "o", "t", " ">> \o DotsSpoken(Tail(s))
    ELSE <<Head(s)>> \o DotsSpoken(Tail(s))

\* format_email_for_speech, one character of the local part
SpelledChar(char) ==
    IF char \in DOMAIN NATO_ALPHABET
    THEN <<UpperChar(char)>> \o <<" ", "a", "s", " ", "i", "n", " ">> \o NATO_ALPHABET[char]
    ELSE IF char = "." THEN <<"d", "o", "t">>
    ELSE IF char = "_" THEN <<"u", "n", "d", "e", "r", "s", "c", "o", "r", "e">>
    ELSE IF char = "-" THEN <<"d", "a", "s", "h">>
    ELSE <<char>>

\* ", ".join(local_parts)
RECURSIVE SpelledLocal(_)
SpelledLocal(local) ==
    IF local = <<>> THEN <<>>
    ELSE IF Len(local) = 1 THEN SpelledChar(LowerChar(local[1]))
    ELSE SpelledChar(LowerChar(local[1])) \o <<",", " ">> \o SpelledLocal(Tail(local))

\* format_email_for_speech: the email as it is said, and as it is spelled
format_email_for_speech(email) ==
    IF ~Contains(email, <<"@">>) THEN [normal |-> email, spelled |-> email]
    ELSE LET at == CHOOSE i \in 1..Len(email) :
                      email[i] = "@" /\ \A j \in 1..(i - 1) : email[j] # "@"
             local == SubSeq(email, 1, at - 1)
             domain_spoken == DotsSpoken(SubSeq(email, at + 1, Len(email)))
         IN [normal |-> local \o <<" ", "a", "t", " ">> \o domain_spoken,
             spelled |-> <<"t", "h", "a", "t", "'", "s", " ">> \o SpelledLocal(local) \o <<" ", "a", "t", " ">> \o domain_spoken]

\* the words twilio_voice_ivr_collect looks for in the caller's answer
ivr_reset_keywords == {<<"r", "e", "s", "t", "a", "r", "t">>, <<"r", "e", "s", "e", "t">>, <<"s", "t", "a", "r", "t", " ", "o", "v", "e", "r">>, <<"s", "t", "a", "r", "t", " ", "a", "g", "a", "i", "n">>, <<"b", "e", "g", "i", "n", " ", "a", "g", "a", "i", "n">>}
affirmative == {<<"y", "e", "s">>, <<"y", "e", "a", "h">>, <<"y", "e", "p">>, <<"c", "o", "r", "r", "e", "c", "t">>, <<"r", "i", "g", "h", "t">>, <<"s", "u", "r", "e">>, <<"o", "k", "a", "y">>, <<"o", "k">>, <<"y", "u", "p">>}
negative_caller_id == {<<"n", "o">>, <<"n", "o", "p", "e">>, <<"n", "a", "h">>, <<"d", "i", "f", "f", "e", "r", "e", "n", "t">>, <<"a", "n", "o", "t", "h", "e", "r">>, <<"c", "h", "a", "n", "g", "e">>}
negative == {<<"n", "o">>, <<"n", "o", "p", "e">>, <<"n", "a", "h">>, <<"d", "i", "f", "f", "e", "r", "e", "n", "t">>, <<"i", "n", "c", "o", "r", "r", "e", "c", "t">>, <<"w", "r", "o", "n", "g">>}

VoiceChannel == <<"v", "o", "i", "c", "e">>

\* the phone number as it is read back, "720, 555, 1234"
PhoneSpeech(digits) ==
    SubSeq(digits, 1, 3) \o <<",", " ">> \o SubSeq(digits, 4, 6) \o <<",", " ">>
        \o SubSeq(digits, 7, 10)

\* del d[k] for every k of keys that d holds
PopAll(d, keys) == [x \in DOMAIN d \ keys |-> d[x]]

\* d with the value under key src moved to key dst, if d holds src
Move(d, src, dst) == IF src \in DOMAIN d THEN Pop(Put(d, dst, d[src]), src) ELSE d

\* the answer to a read-back: the field map that is committed, or no commit
Answer(speech_result, yes_words, no_words, confirmed, discarded, current_state) ==
    LET response_lower == Strip(Lower(speech_result)) IN
    IF AnyIn(yes_words, response_lower) THEN [commit |-> TRUE, state |-> confirmed]
    ELSE IF AnyIn(no_words, response_lower) THEN [commit |-> TRUE, state |-> discarded]
    ELSE [commit |-> FALSE, state |-> current_state]

PhoneKeys == {"_pending_phone_confirm", "_pending_phone_confirm_speech"}
EmailKeys == {"_pending_email", "_pending_email_normal", "_pending_email_spelled"}
VehicleKeys ==
    {"_pending_vehicle_make", "_pending_vehicle_model", "_pending_vehicle_year",
     "_pending_vehicle_confirm", "_pending_vehicle_speech"}

\* " ".join(vehicle_parts): year, make, model, those that new_state holds
VehicleSpeech(new_state) ==
    LET year == IF "vehicle_year" \in DOMAIN new_state THEN <<new_state["vehicle_year"]>> ELSE <<>>
        make == IF "vehicle_make" \in DOMAIN new_state THEN <<new_state["vehicle_make"]>> ELSE <<>>
        model == IF "vehicle_model" \in DOMAIN new_state THEN <<new_state["vehicle_model"]>> ELSE <<>>
        parts == year \o make \o model
    IN IF Len(parts) = 1 THEN parts[1]
       ELSE IF Len(parts) = 2 THEN parts[1] \o <<" ">> \o parts[2]
       ELSE parts[1] \o <<" ">> \o parts[2] \o <<" ">> \o parts[3]

\* twilio_voice_ivr_collect, "Normal processing flow": what is committed for
\* the result of process_turn, and whether create_lead is invoked
IvrNormal(current_state, status, turn) ==
    LET new_state == turn.state
        phone_new == /\ "phone" \in DOMAIN new_state
                     /\ "phone" \notin DOMAIN current_state
                     /\ DOMAIN current_state
                            \cap ({"_pending_phone"} \cup PhoneKeys) = {}
        digits == DigitsOf(Get(new_state, "phone"))
        email_new == "email" \in DOMAIN new_state /\ "email" \notin DOMAIN current_state
        vehicle_fields_changed ==
            \E f \in {"vehicle_make", "vehicle_model", "vehicle_year"} :
                f \in DOMAIN new_state /\ f \notin DOMAIN current_state
        email == format_email_for_speech(Get(new_state, "email"))
    IN IF phone_new /\ Len(digits) = 10
       THEN [call |-> FALSE,
             state |-> Pop(Put(Put(new_state, "_pending_phone_confirm", new_state["phone"]),
                               "_pending_phone_confirm_speech", PhoneSpeech(digits)),
                           "phone")]
       ELSE IF email_new
       THEN [call |-> FALSE,
             state |-> Pop(Put(Put(Put(new_state, "_pending_email", new_state["email"]),
                                   "_pending_email_normal", email.normal),
                               "_pending_email_spelled", email.spelled),
                           "email")]
       ELSE IF vehicle_fields_changed
       THEN [call |-> FALSE,
             state |-> Put(Put(Move(Move(Move(new_state,
                                   "vehicle_year", "_pending_vehicle_year"),
                                   "vehicle_make", "_pending_vehicle_make"),
                                   "vehicle_model", "_pending_vehicle_model"),
                               "_pending_vehicle_confirm", TrueValue),
                           "_pending_vehicle_speech", VehicleSpeech(new_state))]
       ELSE IF turn.done /\ status # "closed"
       THEN [call |-> TRUE, state |-> Put(new_state, "_channel", VoiceChannel)]
       ELSE [call |-> FALSE, state |-> new_state]

\* twilio_voice_ivr_collect after get_or_create_session, on row sid of tbl:
\* the table as it is committed, and the invocation of create_lead
IvrTurn(tbl, sid, speech_result, data) ==
    LET session == tbl[sid]
        current_state ==
            IF /\ {"_phone_confirmed", "phone"} \subseteq DOMAIN session.state
               /\ "_pending_phone" \notin DOMAIN session.state
            THEN Pop(session.state, "_phone_confirmed")
            ELSE session.state
        Committed(a) ==
            [sessions |-> IF a.commit THEN [tbl EXCEPT ![sid].state = a.state] ELSE tbl,
             call |-> FALSE, payload |-> EmptyMap]
        normal == IvrNormal(current_state, session.status,
                            process_turn(data, current_state))
    IN IF AnyIn(ivr_reset_keywords, Lower(speech_result))
       THEN [sessions |-> [tbl EXCEPT ![sid] =
                              [session EXCEPT !.state = EmptyMap,
                                              !.last_prompt_field = "full_name",
                                              !.last_prompt = Welcome,
                                              !.status = "open"]],
             call |-> FALSE, payload |-> EmptyMap]
       ELSE IF "_pending_phone" \in DOMAIN current_state
               /\ "_phone_confirmed" \notin DOMAIN current_state
       THEN Committed(Answer(speech_result, affirmative, negative_caller_id,
                Put(Move(current_state, "_pending_phone", "phone"),
                    "_phone_confirmed", TrueValue),
                Put(Pop(current_state, "_pending_phone"), "_phone_confirmed", TrueValue),
                current_state))
       ELSE IF "_pending_phone_confirm" \in DOMAIN current_state
       THEN Committed(Answer(speech_result, affirmative, negative,
                PopAll(Move(current_state, "_pending_phone_confirm", "phone"), PhoneKeys),
                PopAll(current_state, PhoneKeys),
                current_state))
       ELSE IF "_pending_vehicle_confirm" \in DOMAIN current_state
       THEN Committed(Answer(speech_result, affirmative, negative,
                PopAll(Move(Move(Move(current_state,
                           "_pending_vehicle_make", "vehicle_make"),
                           "_pending_vehicle_model", "vehicle_model"),
                           "_pending_vehicle_year", "vehicle_year"), VehicleKeys),
                PopAll(current_state, VehicleKeys),
                current_state))
       ELSE IF "_pending_email" \in DOMAIN current_state
       THEN Committed(Answer(speech_result, affirmative, negative,
                PopAll(Move(current_state, "_pending_email", "email"), EmailKeys),
                PopAll(current_state, EmailKeys),
                current_state))
       ELSE [sessions |-> [tbl EXCEPT ![sid] =
                              [session EXCEPT
                                  !.state = normal.state,
                                  !.status = IF normal.call THEN "closed" ELSE @]],
             call |-> normal.call, payload |-> normal.state]

\* a request of the turn-based voice flow from the session row on; resp is
\* the provider's answer if create_lead is invoked
IvrRequest(tbl, sid, fresh, out) ==
    /\ Len(tbl) <= MaxSessions
    /\ lastGot' = Got("ivr", sid, tbl, fresh)
    /\ IF out.call
       THEN /\ Len(createLog) < MaxCreate
            /\ \E resp \in ResponsesFor(creds) :
                  /\ createLog' = Append(createLog,
                         CreateEntry("ivr", sid, out.payload, resp))
                  /\ sessions' = IF create_lead(resp) = "raise" THEN tbl
                                 ELSE out.sessions
       ELSE /\ createLog' = createLog
            /\ sessions' = out.sessions
    /\ UNCHANGED <<failed, succeeded, rejected, handlers, creds, turns, summary, given, outcome, ops>>

\* twilio_voice_ivr after get_or_create_session: the caller's number, when
\* there is one, awaits confirmation
IvrGreeting(tbl, sid, from_number) ==
    LET caller_phone == extract_caller_phone(from_number)
    IN [sessions |-> IF Truthy(caller_phone)
                     THEN [tbl EXCEPT ![sid].state = Put(@, "_pending_phone", caller_phone)]
                     ELSE tbl,
        call |-> FALSE, payload |-> EmptyMap]

\* twilio_voice_ivr: the call arrives
IvrCall(call_sid, from_number) ==
    \E obj \in AnyRow(sessions, "voice", call_sid) :
        IF obj # 0
        THEN IvrRequest(sessions, obj, FALSE, IvrGreeting(sessions, obj, from_number))
        ELSE IvrRequest(Append(sessions, NewSession("voice", call_sid)),
                 Len(sessions) + 1, TRUE,
                 IvrGreeting(Append(sessions, NewSession("voice", call_sid)),
                             Len(sessions) + 1, from_number))

\* twilio_voice_ivr_collect: what the caller said, and what the language
\* model extracts from it when it is asked
IvrCollect(call_sid, speech_result, data) ==
    \E obj \in AnyRow(sessions, "voice", call_sid) :
        IF obj # 0
        THEN IvrRequest(sessions, obj, FALSE,
                 IvrTurn(sessions, obj, speech_result, data))
        ELSE IvrRequest(Append(sessions, NewSession("voice", call_sid)),
                 Len(sessions) + 1, TRUE,
                 IvrTurn(Append(sessions, NewSession("voice", call_sid)),
                         Len(sessions) + 1, speech_result, data))

(***************************************************************************)
(* The operator tool, manage_failed_leads.py                               *)
(***************************************************************************)
\* the three tables and the history an operator command works on
Ledger == [failed |-> failed, succeeded |-> succeeded, createLog |-> createLog]

\* a check that lets a resolved lead be retried
RetryableResolved(tbl, lead_id) == lead_id \in 1..Len(tbl)

\* retry_lead goes on to create_lead: the lead exists and is not resolved
Retryable(tbl, lead_id) ==
    IF lead_id \in 1..Len(tbl) THEN tbl[lead_id].resolved = 0 ELSE FALSE

\* the failed_leads row after a retry that resolved it
RetrySucceeded(lead) == [lead EXCEPT !.resolved = 1, !.retry_count = @ + 1]

\* a failed retry that replaces the error text by the new error
RetryFailedOverwrites(lead, err) ==
    [lead EXCEPT !.retry_count = @ + 1, !.error_message = <<err>>]

\* the failed_leads row after a retry that raised: the error is appended
\* to the earlier text
RetryFailed(lead, err) ==
    [lead EXCEPT !.retry_count = @ + 1, !.error_message = Append(@, err)]

\* retry_lead(lead_id) on the tables st: the tables after it and the value
\* it returns (ok); resp is the provider's answer if a request goes out
RetryResult(st, lead_id, resp) ==
    IF ~Retryable(st.failed, lead_id)
    THEN [failed |-> st.failed, succeeded |-> st.succeeded,
          createLog |-> st.createLog, ok |-> FALSE]
    ELSE LET lead == st.failed[lead_id]
             log == Append(st.createLog,
                        CreateEntry("retry", lead.session_id, lead.lead_data, resp))
         IN IF create_lead(resp) # "raise"
            THEN [failed |-> [st.failed EXCEPT ![lead_id] = RetrySucceeded(lead)],
                  succeeded |-> Append(st.succeeded,
                      NewSucceededLead(lead.lead_data, lead.channel, lead.session_id,
                                       StoredResponse(create_lead(resp)))),
                  createLog |-> log, ok |-> TRUE]
            ELSE [failed |-> [st.failed EXCEPT ![lead_id] = RetryFailed(lead, resp)],
                  succeeded |-> st.succeeded, createLog |-> log, ok |-> FALSE]

\* retry_lead as the steps between which another command can run: the
\* query and the resolved check, the await of create_lead, the commit
NoOp == [pc |-> "idle", lead_id |-> 0, retry_count |-> 0, error_message |-> <<>>,
         resp |-> "", result |-> ""]

\* db.query(FailedLead)...first() and the check of lead.resolved; the
\* command keeps the row as it read it
RetryRead(o, lead_id) ==
    /\ ops[o].pc = "idle"
    /\ lead_id \in 1..Len(failed)
    /\ ops' = [ops EXCEPT ![o] =
           IF Retryable(failed, lead_id)
           THEN [NoOp EXCEPT !.pc = "calling", !.lead_id = lead_id,
                             !.retry_count = failed[lead_id].retry_count,
                             !.error_message = failed[lead_id].error_message]
           ELSE [NoOp EXCEPT !.pc = "returned", !.lead_id = lead_id]]
    /\ UNCHANGED <<sessions, failed, succeeded, rejected, createLog, handlers, lastGot, creds, turns, summary, given, outcome>>

\* await create_lead(lead.lead_data)
RetryCall(o, resp) ==
    LET lead == failed[ops[o].lead_id] IN
    /\ ops[o].pc = "calling"
    /\ Len(createLog) < MaxCreate
    /\ createLog' = Append(createLog,
           CreateEntry("retry", lead.session_id, lead.lead_data, resp))
    /\ ops' = [ops EXCEPT ![o].pc = "called", ![o].resp = resp,
                          ![o].result = create_lead(resp)]
    /\ UNCHANGED <<sessions, failed, succeeded, rejected, handlers, lastGot, creds, turns, summary, given, outcome>>

\* the commit of either branch: the columns the command assigned are
\* written from the row as the command read it
RetryCommit(o) ==
    LET lead_id == ops[o].lead_id
        lead == [failed[lead_id] EXCEPT !.retry_count = ops[o].retry_count,
                                        !.error_message = ops[o].error_message]
    IN
    /\ ops[o].pc = "called"
    /\ IF ops[o].result # "raise"
       THEN /\ failed' = [failed EXCEPT ![lead_id] = RetrySucceeded(lead)]
            /\ succeeded' = Append(succeeded,
                   NewSucceededLead(lead.lead_data, lead.channel, lead.session_id,
                                    StoredResponse(ops[o].result)))
       ELSE /\ failed' = [failed EXCEPT ![lead_id] = RetryFailed(lead, ops[o].resp)]
            /\ succeeded' = succeeded
    /\ ops' = [ops EXCEPT ![o].pc = "returned"]
    /\ UNCHANGED <<sessions, rejected, createLog, handlers, lastGot, creds, turns, summary, given, outcome>>

\* the command "retry <id>": retry_lead(lead_id)
RetryLead(lead_id, resp) ==
    LET out == RetryResult(Ledger, lead_id, resp) IN
    /\ Len(out.createLog) <= MaxCreate
    /\ failed' = out.failed
    /\ succeeded' = out.succeeded
    /\ createLog' = out.createLog
    /\ UNCHANGED <<sessions, rejected, handlers, lastGot, creds, turns, summary, given, outcome, ops>>

\* the ids of the leads the query of retry_all_leads and list_failed_leads
\* selects
Unresolved(tbl) == {i \in 1..Len(tbl) : tbl[i].resolved = 0}

\* a count that leaves the failures out
TallyDropsFailures(counts, ok) ==
    [success_count |-> counts.success_count + (IF ok THEN 1 ELSE 0),
     fail_count |-> counts.fail_count]

\* success_count and fail_count of retry_all_leads after one retry_lead
Tally(counts, ok) ==
    [success_count |-> counts.success_count + (IF ok THEN 1 ELSE 0),
     fail_count |-> counts.fail_count + (IF ok THEN 0 ELSE 1)]

\* the loop of retry_all_leads over the leads it listed (the query has no
\* ORDER BY; the rows are taken in id order):
\* the tables and the counts after the leads with ids from lead_id on;
\* resps[i] is the provider's answer to the retry of lead i
RECURSIVE RetryEach(_, _, _, _)
RetryEach(st, listed, lead_id, resps) ==
    IF lead_id > Len(st.failed) THEN st
    ELSE IF lead_id \notin listed THEN RetryEach(st, listed, lead_id + 1, resps)
    ELSE LET out == RetryResult(st, lead_id, resps[lead_id]) IN
         RetryEach([failed |-> out.failed, succeeded |-> out.succeeded,
                    createLog |-> out.createLog]
                       @@ Tally([success_count |-> st.success_count,
                                 fail_count |-> st.fail_count], out.ok),
                   listed, lead_id + 1, resps)

\* no retry-all has printed a summary
NoSummary == [printed |-> FALSE, success_count |-> 0, fail_count |-> 0]

\* the command "retry-all": retry_all_leads(); without unresolved leads it
\* returns before the loop and prints no summary
RetryAll(resps) ==
    LET listed == Unresolved(failed)
        out == RetryEach(Ledger @@ [success_count |-> 0, fail_count |-> 0],
                         listed, 1, resps)
    IN
    /\ Len(createLog) + Cardinality(listed) <= MaxCreate
    /\ failed' = out.failed
    /\ succeeded' = out.succeeded
    /\ createLog' = out.createLog
    /\ summary' = IF listed = {} THEN summary
                  ELSE [printed |-> TRUE, success_count |-> out.success_count,
                        fail_count |-> out.fail_count]
    /\ UNCHANGED <<sessions, rejected, handlers, lastGot, creds, turns, given, outcome, ops>>

NoGot == [src |-> "none", id |-> 0, status |-> "open", blank |-> TRUE, fresh |-> FALSE]

\* no call of process_turn made
NoTurn == [done |-> FALSE, reply |-> "none"]

Init ==
    /\ sessions = <<>>
    /\ failed = <<>>
    /\ succeeded = <<>>
    /\ rejected = <<>>
    /\ createLog = <<>>
    /\ handlers = [h \in Handlers |-> NoHandler]
    /\ lastGot = NoGot
    /\ creds \in BOOLEAN
    /\ turns = <<>>
    /\ summary = NoSummary
    /\ given = NoTurn
    /\ outcome = NoTurn
    /\ ops = [o \in Operators |-> NoOp]

(***************************************************************************)
(* Spec: one streaming voice call, from the construction of its handler to *)
(* the end of both pumps, and the operator's retries of its failed leads.  *)
(* The engine's transcript events are left to SpecTurns, its malformed     *)
(* function calls to SpecSave.                                             *)
(***************************************************************************)
\* the handler instance of the call
Calls == {1}

\* FUNCTION_TOOLS: the functions the engine may call
FunctionNames == {"save_lead_field", "submit_lead"}

Next ==
    \/ \E h \in Calls, c \in CallSids : HandlerStart(h, c)
    \/ \E h \in Calls, c \in CallSids, p \in CallerPhones : TwilioStart(h, c, p)
    \/ \E h \in Calls : TwilioStop(h)
    \/ \E h \in Calls : OpenAIClosed(h)
    \/ \E h \in Calls, fv \in SaveInputs : SaveField(h, fv[1], fv[2])
    \/ \E h \in Calls, resp \in ResponsesFor(creds) : SubmitLead(h, resp)
    \/ \E h \in Calls, db_ok \in BOOLEAN : ResponseDone(h, db_ok)
    \/ \E h \in Calls, mark_ok, close_ok \in BOOLEAN : HangUp(h, mark_ok, close_ok)
    \/ \E id \in 1..MaxCreate, resp \in ResponsesFor(creds) : RetryLead(id, resp)

Spec == Init /\ [][Next]_vars

(***************************************************************************)
(* SpecSms: the text messages of one number.                               *)
(***************************************************************************)
NextSms ==
    \E from_number \in SmsKeys, m \in SmsInputs : Sms(from_number, m[1], m[2])

SpecSms == Init /\ [][NextSms]_vars

(***************************************************************************)
(* SpecSave: the function calls of one streaming voice call before its     *)
(* submission, with every kind of argument the engine may send; the        *)
(* handler is constructed with the call id or with the placeholder key.    *)
(***************************************************************************)
NextSave ==
    \/ \E h \in Calls, c \in CallSids \cup {PENDING} : HandlerStart(h, c)
    \/ \E h \in Calls, c \in CallSids, p \in CallerPhones : TwilioStart(h, c, p)
    \/ \E h \in Calls, fv \in SaveInputs \cup InvalidSaveInputs :
           SaveField(h, fv[1], fv[2])
    \/ \E h \in Calls, name \in FunctionNames : FunctionCallUnparsed(h, name)
    \/ \E h \in Calls : OpenAIClosed(h)

SpecSave == Init /\ [][NextSave]_vars

(***************************************************************************)
(* SpecTurns: the audit log of the stream connections of one call, each    *)
(* with a handler of its own, from their construction to the end of their  *)
(* pumps.                                                                  *)
(***************************************************************************)
NextTurns ==
    \/ \E h \in Handlers, c \in CallSids : HandlerStart(h, c)
    \/ \E h \in Handlers : TwilioStop(h)
    \/ \E h \in Handlers : OpenAIClosed(h)
    \/ \E h \in Handlers : Transcript(h)
    \/ \E h \in Handlers, db_ok \in BOOLEAN : ResponseDone(h, db_ok)

SpecTurns == Init /\ [][NextTurns]_vars

(***************************************************************************)
(* The two pumps of the stream connections of one call.  The telephony     *)
(* side sends a media frame every 20 ms for as long as its socket is open, *)
(* so a media event that would end the telephony pump is not put off for   *)
(* ever; nothing obliges the engine or the caller to send anything.        *)
(***************************************************************************)
(* One streaming voice call whose caller gives the values of a complete    *)
(* lead, up to the submission, the drain wait and the hangup.              *)
(***************************************************************************)
\* the values the engine saves for a caller with a complete, eligible lead
CompleteInputs ==
    {<<"full_name", NameTim>>, <<"zip_code", Zip30093>>, <<"phone", Phone720>>,
     <<"vehicle_make", Yamaha>>, <<"vehicle_model", Grizzly>>,
     <<"vehicle_year", Year2020>>}

NextHangup ==
    \E h \in Calls :
        \/ \E c \in CallSids : HandlerStart(h, c)
        \/ TwilioStop(h)
        \/ OpenAIClosed(h)
        \/ TwilioMedia(h)
        \/ \E delivered \in BOOLEAN : AudioDelta(h, delivered)
        \/ AudioDeltaUnread(h)
        \/ \E fv \in CompleteInputs : SaveField(h, fv[1], fv[2])
        \/ \E resp \in ResponsesFor(creds) : SubmitLead(h, resp)
        \/ \E db_ok \in BOOLEAN : ResponseDone(h, db_ok)
        \/ \E mark_ok, close_ok \in BOOLEAN : HangUp(h, mark_ok, close_ok)

SpecHangup == Init /\ [][NextHangup]_vars

(***************************************************************************)
(* One streaming voice call in which the engine saves fields again: the    *)
(* same value in another spelling, or another value.                       *)
(***************************************************************************)
\* values the engine passes to save_lead_field, several for a field
ResaveInputs ==
    {<<"zip_code", Zip30093>>, <<"zip_code", Zip30093Plus4>>,
     <<"phone", Phone720>>, <<"phone", Phone1720>>,
     <<"vehicle_year", Year2020>>, <<"vehicle_year", Year2015>>,
     <<"full_name", NameTim>>}

NextResave ==
    \E h \in Calls :
        \/ \E c \in CallSids : HandlerStart(h, c)
        \/ \E fv \in ResaveInputs : SaveField(h, fv[1], fv[2])
        \/ OpenAIClosed(h)
        \/ TwilioStop(h)

SpecResave == Init /\ [][NextResave]_vars

(***************************************************************************)
(* SpecRules: process_turn called once with a message that gives every     *)
(* field of a lead, for leads that differ in postal code and vehicle.      *)
(***************************************************************************)
Honda == <<"H", "o", "n", "d", "a">>
Harley == <<"H", "a", "r", "l", "e", "y">>
HarleyDavidson == <<"H", "a", "r", "l", "e", "y", "-", "D", "a", "v", "i", "d", "s", "o", "n">>
Polaris == <<"P", "o", "l", "a", "r", "i", "s">>
Rancher == <<"R", "a", "n", "c", "h", "e", "r">>
RoadKing == <<"R", "o", "a", "d", " ", "K", "i", "n", "g">>
CBR600 == <<"C", "B", "R", "6", "0", "0">>
RZR == <<"R", "Z", "R">>
YZ250 == <<"Y", "Z", "2", "5", "0">>
Metropolitan == <<"M", "e", "t", "r", "o", "p", "o", "l", "i", "t", "a", "n">>
SRF == <<"S", "R", "/", "F">>
LiveWire == <<"L", "i", "v", "e", "W", "i", "r", "e">>
Slingshot == <<"S", "l", "i", "n", "g", "s", "h", "o", "t">>
RC51 == <<"R", "C", "5", "1">>
Zip96801 == <<"9", "6", "8", "0", "1">>
Year1999 == <<"1", "9", "9", "9">>
Year2000 == <<"2", "0", "0", "0">>
Year2005 == <<"2", "0", "0", "5">>
Year2006 == <<"2", "0", "0", "6">>
Year2009 == <<"2", "0", "0", "9">>
Year2010 == <<"2", "0", "1", "0">>
Year2016 == <<"2", "0", "1", "6">>
Year2023 == <<"2", "0", "2", "3">>

RuleZips == {Zip30093, Zip30093Plus4, Zip99501, Zip96801}
RuleVehicles ==
    {<<Honda, Rancher>>, <<HarleyDavidson, RoadKing>>, <<Honda, CBR600>>,
     <<Polaris, RZR>>, <<Yamaha, YZ250>>, <<Honda, Metropolitan>>,
     <<Zero, SRF>>, <<HarleyDavidson, LiveWire>>, <<Polaris, Slingshot>>,
     <<Harley, RC51>>, <<Yamaha, Grizzly>>}
RuleYears ==
    {Year1999, Year2000, Year2005, Year2006, Year2009, Year2010, Year2015,
     Year2016, Year2023}

\* what the language model extracts from a message that gives a whole lead
LeadData(zip_code, make, model, year) ==
    Merge([f \in {"full_name", "zip_code", "phone", "email"} |->
              CASE f = "full_name" -> NameTim
                [] f = "zip_code" -> zip_code
                [] f = "phone" -> Phone720
                [] f = "email" -> EmailSpoken],
          VehicleData(make, model, year))

InitRules ==
    /\ Init
    /\ creds = TRUE

\* the message arrives: the arguments process_turn is called with
Message(zip_code, vehicle, year) ==
    /\ given = NoTurn
    /\ given' = [data |-> LeadData(zip_code, vehicle[1], vehicle[2], year),
                 state |-> EmptyMap]
    /\ UNCHANGED <<sessions, failed, succeeded, rejected, createLog, handlers,
                   lastGot, creds, turns, summary, outcome, ops>>

\* process_turn
ProcessTurn ==
    /\ given # NoTurn /\ outcome = NoTurn
    /\ outcome' = process_turn(given.data, given.state)
    /\ UNCHANGED <<sessions, failed, succeeded, rejected, createLog, handlers,
                   lastGot, creds, turns, summary, given, ops>>

NextRules ==
    \/ \E zip_code \in RuleZips, vehicle \in RuleVehicles, year \in RuleYears :
          Message(zip_code, vehicle, year)
    \/ ProcessTurn

SpecRules == InitRules /\ [][NextRules]_vars

(***************************************************************************)
(* SpecLog: one call whose turns are logged at response.done, with a       *)
(* commit that succeeds or raises.                                         *)
(***************************************************************************)
NextLog ==
    \E h \in Calls :
        \/ \E c \in CallSids : HandlerStart(h, c)
        \/ Transcript(h)
        \/ \E db_ok \in BOOLEAN : ResponseDone(h, db_ok)
        \/ \E delivered \in BOOLEAN : AudioDelta(h, delivered)
        \/ TwilioStop(h)
        \/ OpenAIClosed(h)

SpecLog == Init /\ [][NextLog]_vars

(***************************************************************************)
(* SpecWriters: one handler, created under the placeholder or under the    *)
(* call id, with the two pumps that write its row: the start event of the  *)
(* telephony pump and the function calls of the engine pump.               *)
(***************************************************************************)
WriterInputs == {<<"full_name", NameTim>>, <<"phone", Phone720>>, <<"zip_code", Zip30093>>}

NextWriters ==
    \/ \E h \in Calls, c \in CallSids \cup {PENDING} : HandlerStart(h, c)
    \/ \E h \in Calls, c \in CallSids, p \in CallerPhones : TwilioStart(h, c, p)
    \/ \E h \in Calls, fv \in WriterInputs : SaveField(h, fv[1], fv[2])
    \/ \E h \in Calls, resp \in ResponsesFor(creds) : SubmitLead(h, resp)
    \/ \E h \in Calls : TwilioStop(h)

SpecWriters == Init /\ [][NextWriters]_vars

(***************************************************************************)
(* SpecCalls: two calls, each with its own handler and its own call id,    *)
(* whose handlers are created under the call id or under the placeholder   *)
(* and learn the call id at the start event.                               *)
(***************************************************************************)
CallOf(h) == IF h = 1 THEN "CA1" ELSE "CA2"

NextCalls ==
    \E h \in Handlers :
        \/ \E c \in {PENDING, CallOf(h)} : Lookup(h, c)
        \/ Insert(h)
        \/ \E p \in CallerPhones : TwilioStart(h, CallOf(h), p)
        \/ \E fv \in WriterInputs : SaveField(h, fv[1], fv[2])

SpecCalls == Init /\ [][NextCalls]_vars

(***************************************************************************)
(* SpecIvr: one call of the turn-based voice flow, with or without a       *)
(* caller number; Twilio requests the greeting once, then posts what the   *)
(* caller says.                                                            *)
(***************************************************************************)
No == <<"n", "o">>
PhoneAndEmail == Phone720 \o <<" ">> \o EmailSpoken
IvrCallers == {Unknown, <<"+", "1">> \o Phone720}
IvrInputs ==
    {<<Yes, EmptyMap>>,
     <<No, EmptyMap>>,
     <<NameTim, Put(EmptyMap, "full_name", NameTim)>>,
     <<Zip30093, Put(EmptyMap, "zip_code", Zip30093)>>,
     <<Phone720, Put(EmptyMap, "phone", Phone720)>>,
     <<EmailSpoken, Put(EmptyMap, "email", EmailSpoken)>>,
     <<PhoneAndEmail, Put(Put(EmptyMap, "phone", Phone720), "email", EmailSpoken)>>,
     <<Grizzly, VehicleData(Yamaha, Grizzly, Year2020)>>}

NextIvr ==
    \/ \E call_sid \in CallSids, from_number \in IvrCallers :
          /\ AnyRow(sessions, "voice", call_sid) = {0}
          /\ IvrCall(call_sid, from_number)
    \/ \E call_sid \in CallSids, m \in IvrInputs :
          /\ AnyRow(sessions, "voice", call_sid) # {0}
          /\ IvrCollect(call_sid, m[1], m[2])

SpecIvr == Init /\ [][NextIvr]_vars

(***************************************************************************)
(* SpecOnce: one SMS conversation that is never restarted, with messages   *)
(* after the lead is complete.                                             *)
(***************************************************************************)
OnceInputs == {m \in SmsInputs : ~AnyIn(reset_keywords, Lower(m[1]))}

NextOnce ==
    \E from_number \in SmsKeys, m \in OnceInputs : Sms(from_number, m[1], m[2])

SpecOnce == Init /\ [][NextOnce]_vars

(***************************************************************************)
(* SMS conversations up to the questions they are asked: messages that     *)
(* answer the question, volunteer another field, or give a value that      *)
(* fails validation, with and without a question proposed by the language  *)
(* model.                                                                  *)
(***************************************************************************)
WhatZip == <<"Z", "I", "P", "?">>

AskInputs ==
    {<<BodyHi, EmptyMap>>,
     <<NameTim, Put(EmptyMap, "full_name", NameTim)>>,
     <<Zip30093, Put(EmptyMap, "zip_code", Zip30093)>>,
     <<NameTim, Put(Put(EmptyMap, "full_name", NameTim), "next_question", WhatZip)>>,
     <<EmailBad, Put(EmptyMap, "email", EmailBad)>>,
     <<Yamaha, Put(EmptyMap, "vehicle_make", Yamaha)>>,
     <<Year2020, Put(EmptyMap, "vehicle_year", Year2020)>>,
     <<Grizzly, VehicleData(Yamaha, Grizzly, Year2020)>>}

NextAsk ==
    \E from_number \in SmsKeys, m \in AskInputs : Sms(from_number, m[1], m[2])

SpecAsk == Init /\ [][NextAsk]_vars

(***************************************************************************)
NextPumps ==
    \E h \in Handlers :
        \/ \E sid \in CallSids : HandlerStart(h, sid)
        \/ \E sid \in CallSids, caller_phone \in CallerPhones :
              TwilioStart(h, sid, caller_phone)
        \/ TwilioStop(h)
        \/ OpenAIClosed(h)
        \/ TwilioMedia(h)
        \/ \E delivered \in BOOLEAN : AudioDelta(h, delivered)

SpecPumps == Init /\ [][NextPumps]_vars /\ \A h \in Handlers : WF_vars(TwilioMedia(h))

(***************************************************************************)
(* SpecStore: the session rows of streaming voice calls served by          *)
(* separate server processes, each get-or-create in its two statements.    *)
(* The table starts empty or with the closed row of a submitted call.      *)
(***************************************************************************)
\* the field map of a call that saved every field, at its submission
FullState ==
    LET saved == [f \in {"full_name", "zip_code", "phone", "vehicle_make",
                         "vehicle_model", "vehicle_year"} |->
                     CASE f = "full_name" -> NameTim
                       [] f = "zip_code" -> Zip30093
                       [] f = "phone" -> Phone720
                       [] f = "vehicle_make" -> Yamaha
                       [] f = "vehicle_model" -> Grizzly
                       [] f = "vehicle_year" -> Year2020]
    IN DummyEmail(saved, <<>>)

SubmittedCall == [NewSession("voice", "CA1") EXCEPT !.state = FullState, !.status = "closed"]

InitStore ==
    /\ \/ /\ sessions = <<>>
          /\ succeeded = <<>>
          /\ createLog = <<>>
       \/ /\ sessions = <<SubmittedCall>>
          /\ succeeded = <<NewSucceededLead(FullState, "voice", 1, "None")>>
          /\ createLog = <<CreateEntry("voice", 1, FullState, "ok")>>
    /\ failed = <<>>
    /\ rejected = <<>>
    /\ handlers = [h \in Handlers |-> NoHandler]
    /\ lastGot = NoGot
    /\ creds = TRUE
    /\ turns = <<>>
    /\ summary = NoSummary
    /\ given = NoTurn
    /\ outcome = NoTurn
    /\ ops = [o \in Operators |-> NoOp]

NextStore ==
    \/ \E h \in Handlers, c \in CallSids \cup {PENDING} : Lookup(h, c)
    \/ \E h \in Handlers : Insert(h)
    \/ \E h \in Handlers, c \in CallSids, p \in CallerPhones : TwilioStart(h, c, p)

SpecStore == InitStore /\ [][NextStore]_vars

(***************************************************************************)
(* SpecRetry: the operator's commands on a ledger of failed leads.  Each   *)
(* lead is of a call of its own whose submit_lead failed; createLog holds  *)
(* the invocations of create_lead since the operator started.              *)
(***************************************************************************)
\* the call ids of the calls that ended with a failed submission
EndedCallSids == <<"CA1", "CA2", "CA3">>

\* the session row of such a call: submit_lead leaves it open
FailedCall(i) == [NewSession("voice", EndedCallSids[i]) EXCEPT !.state = FullState]

InitRetry ==
    /\ \E n \in 1..MaxLeads :
          /\ sessions = [i \in 1..n |-> FailedCall(i)]
          /\ failed = [i \in 1..n |-> NewFailedLead(FullState, "httperr", "voice", i)]
    /\ succeeded = <<>>
    /\ rejected = <<>>
    /\ createLog = <<>>
    /\ handlers = [h \in Handlers |-> NoHandler]
    /\ lastGot = NoGot
    /\ creds \in BOOLEAN
    /\ turns = <<>>
    /\ summary = NoSummary
    /\ given = NoTurn
    /\ outcome = NoTurn
    /\ ops = [o \in Operators |-> NoOp]

NextRetry ==
    \/ \E id \in 1..MaxLeads, resp \in ResponsesFor(creds) : RetryLead(id, resp)
    \/ \E resps \in [1..MaxLeads -> ResponsesFor(creds)] : RetryAll(resps)

SpecRetry == InitRetry /\ [][NextRetry]_vars

(***************************************************************************)
(* SpecRace: two operators run "retry <id>" at the same time on the        *)
(* failed leads of ended calls.                                            *)
(***************************************************************************)
NextRace ==
    \E o \in Operators :
        \/ \E lead_id \in 1..MaxLeads : RetryRead(o, lead_id)
        \/ \E resp \in ResponsesFor(creds) : RetryCall(o, resp)
        \/ RetryCommit(o)

SpecRace == InitRetry /\ [][NextRace]_vars

(***************************************************************************)
(* Properties                                                              *)
(***************************************************************************)
\* the ledger rows that reference session row sid
LedgerRows(table, sid) == {i \in 1..Len(table) : table[i].session_id = sid}

LedgerCount(sid) ==
    Cardinality(LedgerRows(succeeded, sid)) + Cardinality(LedgerRows(failed, sid))
        + Cardinality(LedgerRows(rejected, sid))

\* the in-call invocations of create_lead for session row sid
VoiceAttempts(sid) ==
    {i \in 1..Len(createLog) :
        createLog[i].src = "voice" /\ createLog[i].session_id = sid}

\* C1: every session whose status is closed is referenced by exactly one
\* ledger row among succeeded_leads, failed_leads and rejected_leads.
C1_ClosedHasOneLedgerEntry ==
    \A sid \in 1..Len(sessions) :
        sessions[sid].status = "closed" => LedgerCount(sid) = 1

\* C2: for every session the in-call submission is attempted at most once:
\* create_lead is invoked by submit_lead at most once per session row.
C2_SubmitAtMostOnce ==
    \A sid \in 1..Len(sessions) : Cardinality(VoiceAttempts(sid)) <= 1

\* C3: whenever an in-call submission attempt has concluded, with the lead
\* API call succeeded or failed, the session is closed.
C3_ClosedAfterAttempt ==
    \A i \in 1..Len(createLog) :
        createLog[i].src = "voice" => sessions[createLog[i].session_id].status = "closed"

\* C4: no create_lead call is made for a lead whose fields fail an
\* eligibility rule.
C4_RejectedNeverSent ==
    \A i \in 1..Len(createLog) : BusinessRules(createLog[i].payload).ok

\* C5: a session whose lead the rule engine rejected is closed and exactly
\* one rejected_leads row references it, holding the rejection reason.
C5_RejectionRecorded ==
    \A sid \in 1..Len(sessions) :
        Truthy(Get(sessions[sid].state, "_rejected")) =>
            /\ sessions[sid].status = "closed"
            /\ Cardinality({i \in LedgerRows(rejected, sid) :
                   rejected[i].rejection_reason
                       = Get(sessions[sid].state, "_rejection_reason")}) = 1

\* C6: at most one session with status open exists for any (channel,
\* session_key).
C6_OneOpenPerKey ==
    \A i, j \in 1..Len(sessions) :
        (/\ sessions[i].status = "open" /\ sessions[j].status = "open"
         /\ sessions[i].channel = sessions[j].channel
         /\ sessions[i].session_key = sessions[j].session_key) => i = j

\* C7: two first contacts for the same key whose get-or-create overlapped
\* (neither query found a row, and both rows still carry the key and are
\* open) use the same row.
C7_RaceYieldsOneRow ==
    \A h1, h2 \in Handlers :
        (/\ handlers[h1].pc = "run" /\ handlers[h2].pc = "run"
         /\ handlers[h1].obj = 0 /\ handlers[h2].obj = 0
         /\ handlers[h1].queried = handlers[h2].queried
         /\ sessions[handlers[h1].session].session_key = handlers[h1].queried
         /\ sessions[handlers[h2].session].session_key = handlers[h2].queried
         /\ sessions[handlers[h1].session].status = "open"
         /\ sessions[handlers[h2].session].status = "open")
        => handlers[h1].session = handlers[h2].session

\* C8: get-or-create never returns a session whose status is closed, and a
\* row it creates has an empty field map.
C8_NeverReturnsClosed ==
    /\ lastGot.status # "closed"
    /\ lastGot.fresh => lastGot.blank

\* C9: once a session row's status is closed, no step sets it back to open.
C9_StatusMonotone ==
    [][\A sid \in 1..Len(sessions) :
          sessions[sid].status = "closed" => sessions'[sid].status = "closed"]_vars

\* C10: once a session is closed, no later save_lead_field or submit_lead
\* changes its field map or inserts a ledger row that references it.
C10_ClosedIsTerminal ==
    [][((\E h \in Calls, fv \in SaveInputs : SaveField(h, fv[1], fv[2]))
           \/ (\E h \in Calls, resp \in ResponsesFor(creds) : SubmitLead(h, resp)))
       => \A sid \in 1..Len(sessions) :
             sessions[sid].status = "closed" =>
                /\ sessions'[sid].state = sessions[sid].state
                /\ Len(succeeded') = Len(succeeded)
                /\ Len(failed') = Len(failed)]_vars

\* the conversation_turns rows of session row sid, by row id
TurnRows(sid) == {i \in 1..Len(turns) : turns[i].session_id = sid}

\* C11: for every session the turn_number values of its persisted turns are
\* exactly 1, 2, ..., n in the order the rows were written: strictly
\* increasing, starting at 1, without gaps or duplicates.
C11_TurnNumbersSequential ==
    \A sid \in 1..Len(sessions) :
        /\ \A k \in 1..Cardinality(TurnRows(sid)) :
               Cardinality({i \in TurnRows(sid) : turns[i].turn_number = k}) = 1
        /\ \A i, j \in TurnRows(sid) :
               i < j => turns[i].turn_number < turns[j].turn_number

\* C12: when a running handler constructed under the placeholder key takes
\* the true call id from the start event, it keeps its session row: the
\* row's key becomes the true call id, nothing else of the row changes
\* (same id, same field map), no other row changes and no row is added.
C12_PlaceholderRewrittenInPlace ==
    [][\A h \in Handlers :
          (/\ handlers[h].pc = "run" /\ handlers[h].call_sid = PENDING
           /\ handlers'[h].call_sid # PENDING)
          => /\ handlers'[h].session = handlers[h].session
             /\ sessions' = [sessions EXCEPT
                    ![handlers[h].session].session_key = handlers'[h].call_sid]]_vars

\* a call that started under the placeholder key, saved a field and then
\* received its start event holds a row keyed by the true call id
C12_Witness ==
    \E h \in Handlers :
        /\ handlers[h].pc = "run" /\ handlers[h].queried = PENDING
        /\ handlers[h].call_sid \in CallSids
        /\ sessions[handlers[h].session].session_key = handlers[h].call_sid
        /\ sessions[handlers[h].session].state # EmptyMap
        /\ Len(sessions) = 1

\* C13: for every save_lead_field function call received from the engine
\* the bridge sends exactly one function call output, success or failure,
\* and sends it before the response.create that lets the engine continue.
C13_SaveFieldAlwaysAnswered ==
    \A h \in Handlers :
        handlers[h].fn = "save_lead_field" =>
            handlers[h].sent \in {<<OutputSuccess, ResponseCreate>>,
                                  <<OutputFailure, ResponseCreate>>}

\* the value fails the validation of its field: the validator of
\* validation.py for the field, or the zip check of save_lead_field
FailsValidation(field_name, field_value) ==
    \/ ~validate_and_normalize_field(field_name, field_value).is_valid
    \/ field_name = "zip_code" /\ CleanZip(field_value).error # ""

\* C14: a save_lead_field whose value fails the validation of its field
\* leaves the field map of the session as it was, and is answered with a
\* function call output of failure.
C14_InvalidValueNotStored ==
    [][\A h \in Calls, fv \in SaveInputs \cup InvalidSaveInputs :
          (/\ SaveField(h, fv[1], fv[2])
           /\ Truthy(fv[2]) /\ FailsValidation(fv[1], fv[2]))
          => /\ sessions' = sessions
             /\ handlers'[h].sent = <<OutputFailure, ResponseCreate>>]_vars

\* the step invokes create_lead once, from src, with the given result
Invokes(src, result) ==
    /\ Len(createLog') = Len(createLog) + 1
    /\ createLog'[Len(createLog')].src = src
    /\ createLog'[Len(createLog')].result = result

\* C15: when the create_lead call of submit_lead raises (an HTTP error, or
\* the provider reports a rejection), the step adds exactly one failed_leads
\* row for the session, holding the session's field map, the error,
\* retry_count 0 and resolved 0, and adds no succeeded_leads row.
C15_FailureRecordedOnce ==
    [][Invokes("voice", "raise") =>
          LET e == createLog'[Len(createLog')] IN
          /\ failed' = Append(failed,
                 [lead_data |-> sessions'[e.session_id].state,
                  error_message |-> <<e.resp>>, channel |-> "voice",
                  session_id |-> e.session_id, retry_count |-> 0, resolved |-> 0])
          /\ succeeded' = succeeded]_vars

\* a submit_lead whose create_lead call raised has left its failed_leads row
C15_Witness ==
    \E i \in 1..Len(createLog) :
        /\ createLog[i].src = "voice" /\ createLog[i].result = "raise"
        /\ \E j \in LedgerRows(failed, createLog[i].session_id) :
               /\ failed[j].retry_count = 0 /\ failed[j].resolved = 0
               /\ failed[j].error_message = <<createLog[i].resp>>
        /\ LedgerRows(succeeded, createLog[i].session_id) = {}

\* C16: when the create_lead call of submit_lead returns a record id, the
\* succeeded_leads row written for the session stores that id together with
\* the session's field map.
C16_SucceededStoresId ==
    [][Invokes("voice", "id") =>
          LET e == createLog'[Len(createLog')] IN
          succeeded' = Append(succeeded,
              [lead_data |-> sessions'[e.session_id].state, channel |-> "voice",
               session_id |-> e.session_id, npa_response |-> "id"])]_vars

\* tbl2 is tbl1 with one more row
Appended(tbl1, tbl2) ==
    /\ Len(tbl2) = Len(tbl1) + 1
    /\ SubSeq(tbl2, 1, Len(tbl1)) = tbl1

\* C17: a retry of an unresolved failed lead whose create_lead call returns
\* a record id marks that lead resolved, leaves the other failed leads as
\* they were, and adds exactly one succeeded_leads row with the lead's
\* session id, channel and field map.
C17_RetrySuccessResolves ==
    [][Invokes("retry", "id") =>
          \E id \in 1..Len(failed) :
              /\ failed[id].resolved = 0 /\ failed'[id].resolved = 1
              /\ failed'[id].lead_data = failed[id].lead_data
              /\ \A j \in 1..Len(failed') : j # id => failed'[j] = failed[j]
              /\ Appended(succeeded, succeeded')
              /\ succeeded'[Len(succeeded')].session_id = failed[id].session_id
              /\ succeeded'[Len(succeeded')].channel = failed[id].channel
              /\ succeeded'[Len(succeeded')].lead_data = failed[id].lead_data]_vars

\* a retry that delivered the lead of the second call
C17_Witness ==
    /\ Len(failed) = MaxLeads /\ failed[1].resolved = 0 /\ failed[MaxLeads].resolved = 1
    /\ Len(succeeded) = 1 /\ succeeded[1].session_id = failed[MaxLeads].session_id
    /\ \E k \in 1..Len(createLog) :
           createLog[k].src = "retry" /\ createLog[k].result = "id"

\* C18: a retry of an unresolved failed lead whose create_lead call raises
\* adds 1 to the lead's retry_count, appends the new error to the error
\* text kept so far, leaves the lead unresolved and everything else of the
\* failed leads as it was, and adds no succeeded_leads row.
C18_RetryFailureCounted ==
    [][Invokes("retry", "raise") =>
          \E id \in 1..Len(failed) :
              /\ failed[id].resolved = 0
              /\ failed' = [failed EXCEPT
                     ![id].retry_count = @ + 1,
                     ![id].error_message =
                         Append(@, createLog'[Len(createLog')].resp)]
              /\ succeeded' = succeeded]_vars

\* a lead whose retry failed and that was then retried again, failing again
C18_Witness ==
    \E id \in 1..Len(failed) :
        /\ failed[id].resolved = 0 /\ failed[id].retry_count = 2
        /\ Len(failed[id].error_message) = 3
        /\ succeeded = <<>>

\* the retries of the lead of session sid that delivered it
Deliveries(log, sid) ==
    {k \in 1..Len(log) :
        log[k].src = "retry" /\ log[k].session_id = sid /\ log[k].result = "id"}

\* the invocations of create_lead by a retry of the lead of session sid
Retries(log, sid) ==
    {k \in 1..Len(log) : log[k].src = "retry" /\ log[k].session_id = sid}

\* C19: after every operator command each failed lead has at most one
\* succeeded_leads row and at most one delivery to the lead API, and a
\* command leaves a lead that was resolved before it as it was, with no
\* further create_lead call and no further succeeded_leads row for it.
C19_RetryNeverDuplicates ==
    [][\A id \in 1..Len(failed) :
          /\ Cardinality(Deliveries(createLog', failed[id].session_id)) <= 1
          /\ Cardinality({j \in 1..Len(succeeded') :
                 succeeded'[j].session_id = failed[id].session_id}) <= 1
          /\ failed[id].resolved # 0 =>
                /\ failed'[id] = failed[id]
                /\ Retries(createLog', failed[id].session_id)
                       = Retries(createLog, failed[id].session_id)
                /\ LedgerRows(succeeded', failed[id].session_id)
                       = LedgerRows(succeeded, failed[id].session_id)]_vars

\* the first lead was delivered by a retry, and a retry-all that ran after
\* it retried the other lead only
C19_Witness ==
    /\ Len(failed) = MaxLeads /\ \A id \in 1..Len(failed) : failed[id].retry_count = 1
    /\ failed[1].resolved = 1
    /\ Len(createLog) = MaxLeads /\ createLog[1].session_id = failed[1].session_id
    /\ summary.printed /\ summary.success_count + summary.fail_count = MaxLeads - 1

\* C20: a retry-all invokes create_lead exactly once for each lead that is
\* unresolved when it starts, one call after the other, and the counts it
\* prints sum to the number of those leads, the success count being the
\* number of them that are resolved afterwards.
C20_RetryAllCounts ==
    [][((\E resps \in [1..MaxLeads -> ResponsesFor(creds)] : RetryAll(resps))
           /\ \E id \in 1..Len(failed) : failed[id].resolved = 0)
       => LET listed == {id \in 1..Len(failed) : failed[id].resolved = 0}
              added == {k \in 1..Len(createLog') : k > Len(createLog)}
          IN /\ SubSeq(createLog', 1, Len(createLog)) = createLog
             /\ Cardinality(added) = Cardinality(listed)
             /\ \A id \in listed :
                    Cardinality({k \in added :
                        createLog'[k].session_id = failed[id].session_id}) = 1
             /\ summary'.printed
             /\ summary'.success_count + summary'.fail_count = Cardinality(listed)
             /\ summary'.success_count
                    = Cardinality({id \in listed : failed'[id].resolved = 1})]_vars

\* a retry-all over all the leads that delivered one and failed on another
C20_Witness ==
    /\ summary.printed /\ summary.success_count >= 1 /\ summary.fail_count >= 1
    /\ summary.success_count + summary.fail_count = Len(failed)
    /\ Len(createLog) = Len(failed)

\* C21: closing either socket ends the whole call: once one pump of a
\* running handler has returned (the telephony leg stopped or closed, or the
\* engine socket was lost), the other pump eventually ends too and cleanup
\* runs, without waiting for the other side to close on its own.
C21_ClosingEitherEndsCall ==
    \A h \in Handlers :
        (handlers[h].pc = "run" /\ (handlers[h].tw = "done" \/ handlers[h].oa = "done"))
            ~> (handlers[h].pc = "ended")

NormalForm(field_name, field_value) ==
    IF field_name = "zip_code" THEN CleanZip(field_value).value
    ELSE validate_and_normalize_field(field_name, field_value).value

\* the field map holds, for the field, what an accepted save of v stored
SavedFrom(state, field_name, v) ==
    /\ CleanField(field_name, v).error = ""
    /\ ~FailsValidation(field_name, v)
    /\ Get(state, field_name) = CleanField(field_name, v).value

\* C23: saving is idempotent: when the field map holds what a save of v
\* stored for a field, a save of a value w with the same normalized form
\* leaves the field map as it was.
C23_SaveIdempotent ==
    [][\A h \in Calls, fv \in ResaveInputs, w \in ResaveInputs :
          (/\ SaveField(h, w[1], w[2])
           /\ fv[1] = w[1]
           /\ ~FailsValidation(w[1], w[2])
           /\ SavedFrom(sessions[handlers[h].session].state, fv[1], fv[2])
           /\ NormalForm(fv[1], fv[2]) = NormalForm(w[1], w[2]))
          => sessions'[handlers[h].session].state
                 = sessions[handlers[h].session].state]_vars

\* the keys under which twilio_voice_ivr_collect holds a value that awaits
\* the caller's confirmation
PendingKeys ==
    {"_pending_phone", "_pending_phone_confirm", "_pending_phone_confirm_speech",
     "_pending_email", "_pending_email_normal", "_pending_email_spelled",
     "_pending_vehicle_confirm", "_pending_vehicle_make", "_pending_vehicle_model",
     "_pending_vehicle_year"}

\* C24: after a successful save of a field, whatever was saved before, the
\* stored value of the field is the normalized form of the value just
\* saved, and the field map holds no entry awaiting confirmation.
C24_LastSaveWins ==
    [][\A h \in Calls, w \in ResaveInputs :
          (SaveField(h, w[1], w[2]) /\ ~FailsValidation(w[1], w[2]))
          => /\ Get(sessions'[handlers[h].session].state, w[1]) = NormalForm(w[1], w[2])
             /\ DOMAIN sessions'[handlers[h].session].state \cap PendingKeys = {}]_vars

\* the question recorded for a row asks for the first required field, in
\* the order of REQUIRED_FIELDS, that the row's field map lacks
AsksFirstMissing(row, kinds) ==
    (row.last_prompt.kind \in kinds /\ missing_fields(row.state) # <<>>)
    => row.last_prompt.field = missing_fields(row.state)[1]

\* the SMS request is a turn given to process_turn: the row exists, it is
\* not the first message and the body holds no reset keyword
IsTurn(from_number, body) ==
    /\ AnyRow(sessions, "sms", from_number) # {0}
    /\ \A id \in AnyRow(sessions, "sms", from_number) :
          sessions[id].last_prompt_field # ""
    /\ ~AnyIn(reset_keywords, Lower(body))

Judged == outcome.reply \in {"rejection", "thanks"}
Reason == Get(outcome.state, "_rejection_reason")
ServiceArea == validate_zip_code(Get(outcome.state, "zip_code"))
Plausibility ==
    validate_make_model_match(Get(outcome.state, "vehicle_make"),
                              Get(outcome.state, "vehicle_model"))

\* C26: the rules are applied in the order service area, make/model
\* plausibility, category/age eligibility, and a rejected lead has the
\* reason and the category of the earliest rule it fails: zip_code for the
\* service area, make_model_mismatch for the plausibility rule, and
\* electric, slingshot or vehicle_age for the eligibility rule.  Stated for
\* the leads whose postal code has five digits.
C26_EarliestRuleCategory ==
    (outcome.reply = "rejection" /\ Len(Get(outcome.state, "zip_code")) = 5)
    => /\ ~ServiceArea.ok
          => Reason = ServiceArea.msg /\ categorize_rejection(Reason) = "zip_code"
       /\ (ServiceArea.ok /\ ~Plausibility.ok)
          => /\ Reason = Plausibility.msg
             /\ categorize_rejection(Reason) = "make_model_mismatch"
       /\ (ServiceArea.ok /\ Plausibility.ok)
          => categorize_rejection(Reason) \in {"electric", "slingshot", "vehicle_age"}

\* C27: for a postal code with at least five digits, the stored zip is the
\* first five digits of the input unless they begin with the prefix of a
\* region not served; if they do, the lead is rejected with category
\* zip_code.
C27_ZipFirstFiveDigits ==
    (outcome.reply # "none" /\ Len(DigitsOf(given.data["zip_code"])) >= 5)
    => LET five == SubSeq(DigitsOf(given.data["zip_code"]), 1, 5)
       IN IF \E p \in AlaskaPrefixes \cup HawaiiPrefixes : StartsWith(five, p)
          THEN /\ outcome.reply = "rejection"
               /\ categorize_rejection(Reason) = "zip_code"
          ELSE Get(outcome.state, "zip_code") = five

\* the cutoff year of a vehicle category
AgeTypes == {"cruiser", "sport_bike", "side_by_side", "atv", "dirt_bike", "scooter"}
Cutoff(vehicle_type) ==
    CASE vehicle_type = "cruiser" -> 1999
      [] vehicle_type = "sport_bike" -> 2005
      [] vehicle_type = "side_by_side" -> 2009
      [] OTHER -> 2015

\* the cutoff years of every category whose make or model keywords the
\* vehicle matches
AgeCutoffs(make, model, vehicle_type) ==
    LET mk == Lower(make)
        md == Lower(model)
    IN UNION {
        IF AnyIn(DomesticCruiserMakes, mk) \/ vehicle_type = "cruiser" THEN {1999} ELSE {},
        IF /\ AnyIn(MetricMakes, mk) \/ AnyIn(SportModels, md) \/ vehicle_type = "sport_bike"
           /\ vehicle_type \notin {"atv", "side_by_side", "dirt_bike"}
        THEN {2005} ELSE {},
        IF AnyIn(SideBySideModels, md) \/ vehicle_type = "side_by_side" THEN {2009} ELSE {},
        IF \/ AnyIn(AtvModels \cup DirtBikeModels \cup ScooterModels, md)
           \/ vehicle_type \in {"atv", "dirt_bike", "scooter"}
        THEN {2015} ELSE {}}

\* the vehicle is electric, or of the Slingshot line
NamesElectric(make, model) ==
    \E k \in {<<"z", "e", "r", "o">>, <<"l", "i", "v", "e", "w", "i", "r", "e">>} :
        Contains(Lower(make), k) \/ Contains(Lower(model), k)
NamesSlingshot(make, model) ==
    Contains(Lower(make), <<"s", "l", "i", "n", "g", "s", "h", "o", "t">>) \/ Contains(Lower(model), <<"s", "l", "i", "n", "g", "s", "h", "o", "t">>)

\* C28: a vehicle of a category with cutoff year c that no other rule
\* rejects (service area, plausibility, the absolute exclusions, the age
\* rule of another category it matches) is rejected with category
\* vehicle_age for every year at or below c and is eligible from c + 1 on.
C28_CutoffYears ==
    Judged
    => LET make == Get(outcome.state, "vehicle_make")
           model == Get(outcome.state, "vehicle_model")
           year == ToInt(Get(outcome.state, "vehicle_year"))
           vehicle_type == categorize_vehicle_type(make, model)
       IN (/\ ServiceArea.ok /\ Plausibility.ok
           /\ ~NamesElectric(make, model) /\ ~NamesSlingshot(make, model)
           /\ vehicle_type \in AgeTypes)
          => /\ year <= Cutoff(vehicle_type)
                => /\ outcome.reply = "rejection"
                   /\ categorize_rejection(Reason) = "vehicle_age"
             /\ (/\ year >= Cutoff(vehicle_type) + 1
                 /\ \A c \in AgeCutoffs(make, model, vehicle_type) : year > c)
                => outcome.reply = "thanks"

\* a 2015 Honda Rancher rejected with category vehicle_age
C28_Witness ==
    /\ outcome.reply = "rejection"
    /\ Get(outcome.state, "vehicle_model") = Rancher
    /\ Get(outcome.state, "vehicle_year") = Year2015
    /\ Get(outcome.state, "zip_code") = Zip30093
    /\ categorize_rejection(Reason) = "vehicle_age"

\* C29: a vehicle with an electric make or model (Zero, LiveWire) or of the
\* Slingshot line is rejected whatever its year; when the service-area and
\* plausibility rules pass, the category is electric, respectively slingshot.
C29_AbsoluteExclusions ==
    Judged
    => LET make == Get(outcome.state, "vehicle_make")
           model == Get(outcome.state, "vehicle_model")
           earlier == ServiceArea.ok /\ Plausibility.ok
       IN /\ NamesElectric(make, model)
             => /\ outcome.reply = "rejection"
                /\ earlier => categorize_rejection(Reason) = "electric"
          /\ (NamesSlingshot(make, model) /\ ~NamesElectric(make, model))
             => /\ outcome.reply = "rejection"
                /\ earlier => categorize_rejection(Reason) = "slingshot"

\* a 2023 LiveWire rejected with category electric
C29_Witness ==
    /\ outcome.reply = "rejection"
    /\ Get(outcome.state, "vehicle_model") = LiveWire
    /\ Get(outcome.state, "vehicle_year") = Year2023
    /\ Get(outcome.state, "zip_code") = Zip30093
    /\ categorize_rejection(Reason) = "electric"

\* the invocations of create_lead made for row i by the SMS channel
SmsCalls(i) ==
    {n \in DOMAIN createLog :
        createLog[n].src = "sms" /\ createLog[n].session_id = i}

\* C30: in an SMS conversation create_lead is invoked exactly once, when
\* the required fields are complete: never with a required field missing,
\* never a second time, and a conversation stored as complete has had its
\* invocation.
C30_CreateLeadOnce ==
    \A i \in DOMAIN sessions :
        sessions[i].channel = "sms"
        => /\ Cardinality(SmsCalls(i)) <= 1
           /\ \A n \in SmsCalls(i) : missing_fields(createLog[n].payload) = <<>>
           /\ missing_fields(sessions[i].state) = <<>> => SmsCalls(i) # {}

\* the keys under which a phone number or an email awaits the read-back
ReadBackKeys(f) ==
    IF f = "phone" THEN {"_pending_phone", "_pending_phone_confirm"}
    ELSE {"_pending_email"}

\* C31: in the turn-based voice flow a phone number or email is stored
\* under the field's own key only by an affirmative answer to its
\* read-back, with the value that was held under the pending key; a
\* negative answer discards the pending value and leaves the field alone.
C31_StoredOnlyWhenConfirmed ==
    [][\A call_sid \in CallSids, m \in IvrInputs :
          IvrCollect(call_sid, m[1], m[2])
          => LET old == IF lastGot'.fresh THEN EmptyMap
                        ELSE sessions[lastGot'.id].state
                 new == sessions'[lastGot'.id].state
                 said == Strip(Lower(m[1]))
             IN \A f \in {"phone", "email"} :
                   /\ (f \in DOMAIN new /\ Get(old, f) # new[f])
                      => /\ AnyIn(affirmative, said)
                         /\ \E k \in ReadBackKeys(f) \cap DOMAIN old : old[k] = new[f]
                   /\ (/\ ReadBackKeys(f) \cap DOMAIN old # {}
                       /\ ~AnyIn(affirmative, said)
                       /\ AnyIn(negative, said))
                      => /\ ReadBackKeys(f) \cap DOMAIN new = {}
                         /\ Get(new, f) = Get(old, f)]_vars

\* C32: a turn whose row could not be written does not end the
\* conversation: in a step where a handler counts a turn and no turn row
\* is added, the handler stays in its pumps, the engine pump goes on
\* reading (or enters the hangup wait that submit_lead armed) and the
\* telephony side is as it was.
C32_FailedTurnKeepsCall ==
    [][\A h \in Calls :
          (/\ handlers'[h].turn_number = handlers[h].turn_number + 1
           /\ turns' = turns)
          => /\ handlers'[h].pc = "run"
             /\ handlers'[h].oa = IF handlers[h].should_hangup THEN "drain" ELSE "run"
             /\ handlers'[h].tw = handlers[h].tw
             /\ handlers'[h].sent = handlers[h].sent]_vars

\* a call that lost a turn and is still in both pumps
C32_Witness ==
    \E h \in Calls :
        /\ handlers[h].pc = "run" /\ handlers[h].oa = "run" /\ handlers[h].tw = "run"
        /\ handlers[h].turn_number = 1
        /\ ~\E i \in 1..Len(turns) : turns[i].session_id = handlers[h].session

\* C33: the postal code in the body of a create-lead request is the postal
\* code stored in the field map of the session the lead was built from.
C33_RequestZipIsSessionZip ==
    \A i \in 1..Len(createLog) :
        createLog[i].sent
        => LeadCreateData(createLog[i].payload).zip = Get(createLog[i].payload, "zip_code")

C35_EveryDeltaForwarded ==
    \A h \in Calls : handlers[h].frames = handlers[h].deltas

\* the session saw no call of create_lead
NoAttempt(log, sid) == \A i \in 1..Len(log) : log[i].session_id # sid

\* no row of the three ledgers refers to the session
NoLedgerEntry(sid) ==
    /\ \A i \in 1..Len(failed) : failed[i].session_id # sid
    /\ \A i \in 1..Len(succeeded) : succeeded[i].session_id # sid
    /\ \A i \in 1..Len(rejected) : rejected[i].session_id # sid

\* C36: a call that ended before submit_lead reached create_lead leaves
\* only its open session: the row is open, no ledger row refers to it, and
\* the step that ends the call leaves the saved fields as they were.
C36_AbandonedCallLeavesOpenSession ==
    /\ [](\A h \in Calls :
            (handlers[h].pc = "ended" /\ NoAttempt(createLog, handlers[h].session))
            => /\ sessions[handlers[h].session].status = "open"
               /\ NoLedgerEntry(handlers[h].session))
    /\ [][\A h \in Calls :
            (/\ handlers[h].pc = "run" /\ handlers'[h].pc = "ended"
             /\ NoAttempt(createLog', handlers[h].session))
            => sessions'[handlers[h].session] = sessions[handlers[h].session]]_vars

\* a call abandoned after the caller gave a name and a phone number
C36_Witness ==
    \E h \in Calls :
        /\ handlers[h].pc = "ended"
        /\ createLog = <<>>
        /\ sessions[handlers[h].session].status = "open"
        /\ {"full_name", "phone"} \subseteq DOMAIN sessions[handlers[h].session].state

\* the required fields the session lacks once submit_lead has filled in
\* the placeholder email
Lacking(h) ==
    LET filled == DummyEmail(sessions[handlers[h].session].state, handlers[h].caller_phone)
    IN {REQUIRED_FIELDS[i] : i \in {j \in 1..Len(REQUIRED_FIELDS) :
                                      IsBlank(Get(filled, REQUIRED_FIELDS[j]))}}

\* C37: submit_lead on a session that still lacks a required field after
\* the placeholder email was filled in makes no call of create_lead, adds
\* no ledger row, leaves the status of the session as it was, answers
\* success false with exactly the missing fields, and does not arm the
\* hangup.
C37_IncompleteSubmitIsRefused ==
    [][\A h \in Calls, resp \in ApiResponses \cup {"skipped"} :
          (SubmitLead(h, resp) /\ Lacking(h) # {})
          => /\ createLog' = createLog
             /\ failed' = failed /\ succeeded' = succeeded /\ rejected' = rejected
             /\ sessions'[handlers[h].session].status = sessions[handlers[h].session].status
             /\ handlers'[h].sent = <<OutputFailure, ResponseCreate>>
             /\ {handlers'[h].missing[i] : i \in 1..Len(handlers'[h].missing)} = Lacking(h)
             /\ handlers'[h].should_hangup = handlers[h].should_hangup
             /\ handlers'[h].hangup = handlers[h].hangup]_vars

\* submit_lead refused for a caller who gave a name and a phone number only
C37_Witness ==
    \E h \in Calls :
        /\ handlers[h].fn = "submit_lead"
        /\ handlers[h].sent = <<OutputFailure, ResponseCreate>>
        /\ Len(handlers[h].missing) = 4
        /\ ~handlers[h].should_hangup
        /\ createLog = <<>>
        /\ sessions[handlers[h].session].status = "open"
        /\ "email" \in DOMAIN sessions[handlers[h].session].state

\* C38: two distinct calls never share a session row: two handlers that
\* serve different calls hold different rows, also when both were created
\* before their call ids were known.
C38_CallsNeverShareRow ==
    \A h1, h2 \in Handlers :
        (/\ h1 # h2
         /\ handlers[h1].pc = "run" /\ handlers[h2].pc = "run")
        => handlers[h1].session # handlers[h2].session

\* the requests of retries the provider accepted for the lead's session
Delivered(sid) ==
    {i \in 1..Len(createLog) :
        /\ createLog[i].src = "retry" /\ createLog[i].session_id = sid
        /\ createLog[i].resp = "ok"}

\* C39: two retries of the same unresolved failed lead that run at the
\* same time deliver the lead at most once and leave at most one
\* succeeded row for it, however their resolved checks, API calls and
\* commits interleave.
C39_ConcurrentRetryOnce ==
    \A id \in 1..Len(failed) :
        /\ Cardinality(Delivered(failed[id].session_id)) <= 1
        /\ Cardinality(LedgerRows(succeeded, failed[id].session_id)) <= 1

\* the calls of create_lead for the session that returned a record id
Confirmed(sid) ==
    {i \in 1..Len(createLog) :
        createLog[i].session_id = sid /\ createLog[i].result = "id"}

\* C40: a succeeded row is written only for a call of create_lead that
\* returned a record id: a call that was skipped for want of credentials,
\* or answered without an identifier, adds no succeeded row and does not
\* mark the failed lead resolved.
C40_SucceededOnlyWithRecordId ==
    /\ \A i \in 1..Len(succeeded) :
          Cardinality(LedgerRows(succeeded, succeeded[i].session_id))
              <= Cardinality(Confirmed(succeeded[i].session_id))
    /\ \A id \in 1..Len(failed) :
          failed[id].resolved # 0 => Confirmed(failed[id].session_id) # {}

====
